---- MODULE Spec2Model ----
(***************************************************************************)
(* Model of the test-run result tracking of the QLTY framework:            *)
(*   qlty/classes/core/test_reporter.py      (TestReporter, the store)     *)
(*   qlty/classes/core/test_runner_utils.py  (get_testrun_totals)          *)
(*   qlty/classes/core/qlty_testcase.py      (tearDown feeding the store)  *)
(*   qlty/qlty_tests.py                      (_execute / _report)          *)
(*                                                                         *)
(* Spec      : the TestReporter API called in any order with any inputs.   *)
(* SuiteSpec : one run of qlty_tests._execute over a suite of tests.       *)
(***************************************************************************)
EXTENDS Integers, Sequences, FiniteSets, TLC

\* ---------------------------------------------------------------- bounds
\* last value of the wall clock, in ticks
MaxTime == 2
\* ticks per second: datetime has sub-second resolution, duration is int()
TicksPerSecond == 2
\* number of store-changing API calls in one behaviour of Spec
MaxCalls == 3
\* number of (test, trace) entries in results.failures + results.errors
MaxEntries == 2

\* ---------------------------------------------------------------- values
\* Python None, and a value that is not None
None == <<>>
Some(x) == <<x>>

\* a test object: its class __qualname__ and its _testMethodName
Test(c, m) == [cls |-> c, method |-> m]
A_test1 == Test("A", "test1")
A_test2 == Test("A", "test2")
B_test1 == Test("B", "test1")
\* the tests the API is called with in Spec, and every test of any suite
TestCases == {A_test1, A_test2}
AllTests == TestCases \cup {B_test1}

\* unittest.suite._ErrorHolder: stands for a failed setUpClass/setUpModule;
\* it has a description and no _testMethodName
ErrorHolderOf(c) == [cls |-> "_ErrorHolder", description |-> "setUpClass (" \o c \o ")"]
ErrorHolder == ErrorHolderOf("B")

\* stack traces / diagnostic texts the runner hands over
Traces == {"AssertionError: x != y", "RuntimeError: boom"}
HolderTrace == "setUpClass failed"

\* (test, stack trace) tuples of results.failures / results.errors
Entry(t, s) == [test |-> t, trace |-> s]
Entries == {Entry(A_test1, s) : s \in Traces}
             \cup {Entry(A_test2, "AssertionError: x != y"), Entry(ErrorHolder, HolderTrace)}

\* arguments of register_test_case: case_ids, feature_name, test_target
LoginInput == [case_ids |-> <<>>, feature_name |-> "login", test_target |-> "UI"]
CartInput == [case_ids |-> <<101, 102>>, feature_name |-> "cart", test_target |-> "API"]
RegInputs == {LoginInput, CartInput}

\* test_case._outcome at tearDown: None, or an object with .success
Outcomes == {"none", "success", "unsuccessful"}

VARIABLES
    test_results,       \* TestReporter.test_results: class -> method -> record
    external_case_ids,  \* TestReporter.external_case_ids (its keys)
    clock,              \* datetime.datetime.now(), in ticks
    calls,              \* number of API calls made so far
    lastOp,             \* the call made by the last step, with its arguments
    raised,             \* the exception the last call ended with, or "none"
    ret,                \* the value the last call returned
    steps,              \* get_results: one [entry, before, after] per loop pass
    run,                \* qlty_tests._execute: the runner, its results, the sink
    sel                 \* the SeleniumOperations call in progress, or its outcome

vars == <<test_results, external_case_ids, clock, calls, lastOp, raised, ret, steps, run,
         sel>>

\* ------------------------------------------------------- store (helpers)
EmptyDict == [x \in {} |-> None]

Registered(tr, t) == t.cls \in DOMAIN tr /\ t.method \in DOMAIN tr[t.cls]

\* tr[c][m][field] = v, for an existing record
SetField(tr, t, field, v) ==
    [tr EXCEPT ![t.cls] = [@ EXCEPT ![t.method] = [@ EXCEPT ![field] = v]]]

\* all (class, method) keys of the store
Keys(tr) == {t \in AllTests : Registered(tr, t)}

\* ------------------------------------------------ TestReporter (pure part)
\* (variant) _add_test_case that keeps the record a test already has
_add_test_case_keeps_existing(tr, t, feature_name, test_target, now) ==
    IF Registered(tr, t) THEN tr
    ELSE LET withClass == IF t.cls \in DOMAIN tr THEN tr ELSE (t.cls :> EmptyDict) @@ tr
             rec == [status |-> "untested", start_time |-> now, end_time |-> None,
                     duration |-> None, test_case_ids |-> <<>>, message |-> "",
                     feature_name |-> feature_name, test_target |-> test_target]
         IN  [withClass EXCEPT ![t.cls] = (t.method :> rec) @@ withClass[t.cls]]

\* _add_test_case: a fresh record, replacing any record under the same key
_add_test_case(tr, t, feature_name, test_target, now) ==
    LET withClass == IF t.cls \in DOMAIN tr THEN tr ELSE (t.cls :> EmptyDict) @@ tr
        rec == [status        |-> "untested",
                start_time    |-> now,
                end_time      |-> None,
                duration      |-> None,
                test_case_ids |-> <<>>,
                message       |-> "",
                feature_name  |-> feature_name,
                test_target   |-> test_target]
    IN  [withClass EXCEPT ![t.cls] = (t.method :> rec) @@ withClass[t.cls]]

\* _add_external_test_case_ids: the store part
_add_external_test_case_ids(tr, t, case_ids) ==
    SetField(tr, t, "test_case_ids", case_ids)

SeqRange(s) == {s[i] : i \in 1..Len(s)}

\* register_test_case: _add_test_case, then _add_external_test_case_ids
register_test_case(tr, t, case_ids, feature_name, test_target, now) ==
    _add_external_test_case_ids(_add_test_case(tr, t, feature_name, test_target, now),
                                t, case_ids)

\* the keys register_test_case leaves in external_case_ids
register_external_ids(ids, case_ids) == ids \cup SeqRange(case_ids)

\* (variant) add_test_case_result that records a failure inline
add_test_case_result_marks_failed(tr, t, outcome, now) ==
    LET start    == tr[t.cls][t.method].start_time
        timed    == SetField(tr, t, "end_time", Some(now))
        measured == SetField(timed, t, "duration", Some((now - start) \div TicksPerSecond))
    IN  IF outcome = "success" THEN SetField(measured, t, "status", "passed")
        ELSE IF outcome = "unsuccessful" THEN SetField(measured, t, "status", "failed")
        ELSE measured

\* (variant) add_test_case_result that does not look at _outcome.success
add_test_case_result_any_outcome(tr, t, outcome, now) ==
    LET start    == tr[t.cls][t.method].start_time
        timed    == SetField(tr, t, "end_time", Some(now))
        measured == SetField(timed, t, "duration", Some((now - start) \div TicksPerSecond))
    IN  IF outcome # "none" THEN SetField(measured, t, "status", "passed") ELSE measured

\* (variant) add_test_case_result that clears the message of a passing test
add_test_case_result_clears_message(tr, t, outcome, now) ==
    LET start    == tr[t.cls][t.method].start_time
        timed    == SetField(tr, t, "end_time", Some(now))
        measured == SetField(timed, t, "duration", Some((now - start) \div TicksPerSecond))
    IN  IF outcome = "success"
        THEN SetField(SetField(measured, t, "status", "passed"), t, "message", "")
        ELSE measured

\* (variant) add_test_case_result that keeps the duration in clock ticks
add_test_case_result_in_ticks(tr, t, outcome, now) ==
    LET start    == tr[t.cls][t.method].start_time
        timed    == SetField(tr, t, "end_time", Some(now))
        measured == SetField(timed, t, "duration", Some(now - start))
    IN  IF outcome # "none" /\ outcome = "success"
        THEN SetField(measured, t, "status", "passed")
        ELSE measured

\* add_test_case_result on a registered test: end_time, duration, then the
\* status only when the outcome object exists and reports success
add_test_case_result(tr, t, outcome, now) ==
    LET start    == tr[t.cls][t.method].start_time
        timed    == SetField(tr, t, "end_time", Some(now))
        measured == SetField(timed, t, "duration", Some((now - start) \div TicksPerSecond))
    IN  IF outcome # "none" /\ outcome = "success"
        THEN SetField(measured, t, "status", "passed")
        ELSE measured

\* (variant) a loop pass that files the setup-failure marker as a record
failed_case_step_holder_record(tr, failed_case) ==
    LET test_case == failed_case.test IN
    IF test_case.cls = "_ErrorHolder"
    THEN [store   |-> ("_ErrorHolder" :> (test_case.description :>
                          [status |-> "failed", message |-> failed_case.trace])) @@ tr,
          goes_on |-> TRUE, raised |-> "none"]
    ELSE IF ~Registered(tr, test_case)
    THEN [store |-> tr, goes_on |-> FALSE, raised |-> "KeyError"]
    ELSE [store   |-> SetField(SetField(tr, test_case, "status", "failed"),
                               test_case, "message", failed_case.trace),
          goes_on |-> TRUE, raised |-> "none"]

\* (variant) a loop pass that also blanks the feature of the record it marks
failed_case_step_blanks_feature(tr, failed_case) ==
    LET test_case == failed_case.test IN
    IF test_case.cls = "_ErrorHolder"
    THEN [store |-> tr, goes_on |-> FALSE, raised |-> "none"]
    ELSE IF ~Registered(tr, test_case)
    THEN [store |-> tr, goes_on |-> FALSE, raised |-> "KeyError"]
    ELSE [store   |-> SetField(SetField(SetField(tr, test_case, "status", "failed"),
                               test_case, "message", failed_case.trace),
                               test_case, "feature_name", ""),
          goes_on |-> TRUE, raised |-> "none"]

\* (variant) a loop pass that adds the stack trace to the message kept
failed_case_step_appends_message(tr, failed_case) ==
    LET test_case == failed_case.test IN
    IF test_case.cls = "_ErrorHolder"
    THEN [store |-> tr, goes_on |-> FALSE, raised |-> "none"]
    ELSE IF ~Registered(tr, test_case)
    THEN [store |-> tr, goes_on |-> FALSE, raised |-> "KeyError"]
    ELSE [store   |-> SetField(SetField(tr, test_case, "status", "failed"), test_case,
                               "message", tr[test_case.cls][test_case.method].message
                                              \o failed_case.trace),
          goes_on |-> TRUE, raised |-> "none"]

\* (variant) a loop pass that makes a record for a test that has none
failed_case_step_creates_record(tr, failed_case) ==
    LET test_case == failed_case.test
        withClass == IF test_case.cls \in DOMAIN tr THEN tr
                     ELSE (test_case.cls :> EmptyDict) @@ tr
        rec       == [status |-> "failed", message |-> failed_case.trace]
    IN
    IF test_case.cls = "_ErrorHolder"
    THEN [store |-> tr, goes_on |-> FALSE, raised |-> "none"]
    ELSE IF ~Registered(tr, test_case)
    THEN [store   |-> [withClass EXCEPT ![test_case.cls] =
                                            (test_case.method :> rec) @@ withClass[test_case.cls]],
          goes_on |-> TRUE, raised |-> "none"]
    ELSE [store   |-> SetField(SetField(tr, test_case, "status", "failed"),
                               test_case, "message", failed_case.trace),
          goes_on |-> TRUE, raised |-> "none"]

\* one pass of the loop of _get_failed_results over the entry failed_case:
\* the store it leaves, whether the loop goes on, and the exception raised
failed_case_step(tr, failed_case) ==
    LET test_case == failed_case.test IN
    IF test_case.cls = "_ErrorHolder"
    THEN [store |-> tr, goes_on |-> FALSE, raised |-> "none"]
    ELSE IF ~Registered(tr, test_case)
    THEN [store |-> tr, goes_on |-> FALSE, raised |-> "KeyError"]
    ELSE [store   |-> SetField(SetField(tr, test_case, "status", "failed"),
                               test_case, "message", failed_case.trace),
          goes_on |-> TRUE, raised |-> "none"]

\* _get_failed_results from entry i of result_list on
RECURSIVE failed_results_from(_, _, _)
failed_results_from(tr, result_list, i) ==
    IF i > Len(result_list)
    THEN [store |-> tr, raised |-> "none", steps |-> <<>>]
    ELSE LET one  == failed_case_step(tr, result_list[i])
             step == [entry |-> result_list[i], before |-> tr, after |-> one.store]
         IN  IF one.goes_on
             THEN LET rest == failed_results_from(one.store, result_list, i + 1)
                  IN  [store |-> rest.store, raised |-> rest.raised,
                       steps |-> <<step>> \o rest.steps]
             ELSE [store |-> one.store, raised |-> one.raised, steps |-> <<step>>]

_get_failed_results(tr, result_list) == failed_results_from(tr, result_list, 1)

\* get_results: the failures, then (unless an exception ended the call) the errors
get_results(tr, results) ==
    LET f == _get_failed_results(tr, results.failures) IN
    IF f.raised # "none" THEN f
    ELSE LET e == _get_failed_results(f.store, results.errors)
         IN  [store |-> e.store, raised |-> e.raised, steps |-> f.steps \o e.steps]

\* ------------------------------------------------------ TestRunnerUtils
\* "{:.1f}%": one decimal, the nearest tenth, a tie going to the even tenth
Digit(d) == CASE d = 0 -> "0" [] d = 1 -> "1" [] d = 2 -> "2" [] d = 3 -> "3"
              [] d = 4 -> "4" [] d = 5 -> "5" [] d = 6 -> "6" [] d = 7 -> "7"
              [] d = 8 -> "8" [] d = 9 -> "9"

RECURSIVE Decimal(_)
Decimal(n) == IF n < 10 THEN Digit(n) ELSE Decimal(n \div 10) \o Digit(n % 10)

\* the nearest integer to num / den, den > 0
RoundHalfEven(num, den) ==
    LET q == num \div den
        r == num % den
    IN  IF 2 * r > den \/ (2 * r = den /\ q % 2 = 1) THEN q + 1 ELSE q

\* (variant) the percentage without its decimal place, "{:.0f}%"
format_percentage_whole(count, total) ==
    Decimal(RoundHalfEven(count * 100, total)) \o "%"

\* (variant) the percentage cut off after its first decimal
format_percentage_truncates(count, total) ==
    LET tenths == (count * 1000) \div total
    IN  Decimal(tenths \div 10) \o "." \o Digit(tenths % 10) \o "%"

\* "{:.1f}%".format((count / total) * 100), total > 0
format_percentage(count, total) ==
    LET tenths == RoundHalfEven(count * 1000, total)
    IN  Decimal(tenths \div 10) \o "." \o Digit(tenths % 10) \o "%"

\* (variant) a loop that counts every record that did not pass as failed
RECURSIVE count_statuses_else_failed(_, _, _)
count_statuses_else_failed(tr, todo, counters) ==
    IF todo = {} THEN counters
    ELSE LET t      == CHOOSE k \in todo : TRUE
             result == tr[t.cls][t.method]
             next   == IF result.status = "passed"
                       THEN [counters EXCEPT !.passed_testcases = @ + 1]
                       ELSE [counters EXCEPT !.failed_testcases = @ + 1]
         IN  count_statuses_else_failed(tr, todo \ {t}, next)

\* the loop of get_testrun_totals: the (passed, failed) counters after the
\* records under the keys in todo have been visited
RECURSIVE count_statuses(_, _, _)
count_statuses(tr, todo, counters) ==
    IF todo = {} THEN counters
    ELSE LET t      == CHOOSE k \in todo : TRUE
             result == tr[t.cls][t.method]
             next   == IF result.status = "passed"
                       THEN [counters EXCEPT !.passed_testcases = @ + 1]
                       ELSE IF result.status = "failed"
                       THEN [counters EXCEPT !.failed_testcases = @ + 1]
                       ELSE counters
         IN  count_statuses(tr, todo \ {t}, next)

\* total_testcases as get_testrun_totals computes it from the two counters
total_of(counters) == counters.passed_testcases + counters.failed_testcases

\* (variant) get_testrun_totals that keeps what it computed in the store
get_testrun_totals_keeps_totals(tr) ==
    LET counters == count_statuses(tr, Keys(tr),
                                   [passed_testcases |-> 0, failed_testcases |-> 0])
        total    == total_of(counters)
    IN  IF total = 0
        THEN [raised |-> "ZeroDivisionError", value |-> None, store |-> tr]
        ELSE [raised |-> "none",
              value  |-> Some([total_testcases   |-> total,
                          passed_testcases  |-> counters.passed_testcases,
                          failed_testcases  |-> counters.failed_testcases,
                          passed_percentage |->
                              format_percentage(counters.passed_testcases, total),
                          failed_percentage |->
                              format_percentage(counters.failed_testcases, total)]),
              store  |-> ("totals" :> [total_testcases |-> total]) @@ tr]

\* get_testrun_totals: the dictionary it returns, or the exception it
\* raises, and the store it leaves, which it only reads
get_testrun_totals(tr) ==
    LET counters == count_statuses(tr, Keys(tr),
                                   [passed_testcases |-> 0, failed_testcases |-> 0])
        total    == total_of(counters)
    IN  IF total = 0
        THEN [raised |-> "ZeroDivisionError", value |-> None, store |-> tr]
        ELSE [raised |-> "none",
              value  |-> Some([total_testcases   |-> total,
                          passed_testcases  |-> counters.passed_testcases,
                          failed_testcases  |-> counters.failed_testcases,
                          passed_percentage |->
                              format_percentage(counters.passed_testcases, total),
                          failed_percentage |->
                              format_percentage(counters.failed_testcases, total)]),
              store  |-> tr]

\* ------------------------------------------------- Spec: the API, any order
\* results.failures and results.errors the caller may hand to get_results
EntryLists == UNION {[1..n -> Entries] : n \in 0..MaxEntries}
\* a longer result: a test that failed an assertion and then raised in its
\* tearDown, in a run in which the setUpClass of another class had failed
RepeatedEntryResults ==
    { [failures |-> <<Entry(A_test1, "AssertionError: x != y")>>,
       errors   |-> <<Entry(ErrorHolder, HolderTrace), Entry(A_test1, "RuntimeError: boom")>>] }

RunnerResults == { [failures |-> f, errors |-> e] :
                      <<f, e>> \in {p \in EntryLists \X EntryLists :
                                       Len(p[1]) + Len(p[2]) <= MaxEntries} }
                   \cup RepeatedEntryResults

\* no run of _execute is under way: the API is driven directly
NoRun == [pc |-> "api"]

\* no call is under way: the caller has taken the result of the last one
Idle == [op |-> "idle"]

\* no SeleniumOperations call has been made
NoCall == [pc |-> "idle", op |-> "none"]

Init ==
    /\ test_results = EmptyDict
    /\ external_case_ids = {}
    /\ clock = 0
    /\ calls = 0
    /\ lastOp = Idle
    /\ raised = "none"
    /\ ret = None
    /\ steps = <<>>
    /\ run = NoRun
    /\ sel = NoCall

\* time passes between two calls
Tick ==
    /\ lastOp = Idle
    /\ clock < MaxTime
    /\ clock' = clock + 1
    /\ UNCHANGED <<test_results, external_case_ids, calls, lastOp, raised, ret, steps, run, sel>>

\* the caller takes what the last call returned or raised and goes on
Return ==
    /\ lastOp # Idle
    /\ lastOp' = Idle
    /\ raised' = "none"
    /\ ret' = None
    /\ steps' = <<>>
    /\ UNCHANGED <<test_results, external_case_ids, clock, calls, run, sel>>

RegisterTestCase ==
    /\ lastOp = Idle
    /\ calls < MaxCalls
    /\ \E t \in TestCases, inp \in RegInputs :
          /\ test_results' = register_test_case(test_results, t, inp.case_ids,
                                 inp.feature_name, inp.test_target, clock)
          /\ external_case_ids' = register_external_ids(external_case_ids, inp.case_ids)
          /\ lastOp' = [op |-> "register_test_case", test |-> t, args |-> inp, now |-> clock]
    /\ calls' = calls + 1
    /\ raised' = "none"
    /\ ret' = None
    /\ steps' = <<>>
    /\ UNCHANGED <<clock, run, sel>>

AddTestCaseResult ==
    /\ lastOp = Idle
    /\ calls < MaxCalls
    /\ \E t \in TestCases, outcome \in Outcomes :
          /\ IF Registered(test_results, t)
             THEN /\ test_results' = add_test_case_result(test_results, t, outcome, clock)
                  /\ raised' = "none"
             ELSE /\ test_results' = test_results
                  /\ raised' = "KeyError"
          /\ lastOp' = [op |-> "add_test_case_result", test |-> t,
                        outcome |-> outcome, now |-> clock]
    /\ calls' = calls + 1
    /\ ret' = None
    /\ steps' = <<>>
    /\ UNCHANGED <<external_case_ids, clock, run, sel>>

GetResults ==
    /\ lastOp = Idle
    /\ calls < MaxCalls
    /\ \E results \in RunnerResults :
          LET done == get_results(test_results, results) IN
          /\ test_results' = done.store
          /\ raised' = done.raised
          /\ steps' = done.steps
          /\ lastOp' = [op |-> "get_results", results |-> results]
    /\ calls' = calls + 1
    /\ ret' = None
    /\ UNCHANGED <<external_case_ids, clock, run, sel>>

GetTestrunTotals ==
    /\ lastOp = Idle
    /\ LET totals == get_testrun_totals(test_results) IN
          /\ test_results' = totals.store
          /\ raised' = totals.raised
          /\ ret' = totals.value
    /\ lastOp' = [op |-> "get_testrun_totals"]
    /\ steps' = <<>>
    /\ UNCHANGED <<external_case_ids, clock, calls, run, sel>>

Next ==
    \/ Tick
    \/ Return
    \/ RegisterTestCase
    \/ AddTestCaseResult
    \/ GetResults
    \/ GetTestrunTotals

Spec == Init /\ [][Next]_vars

\* ------------------------------------- SuiteSpec: one run of _execute
\* the suites the loader can hand to the runner (_execute, a single test
\* name or the discovery of the tests directory), in running order
Suites == { <<A_test1, A_test2>>, <<B_test1, A_test1, A_test2>> }

\* how the runner can end a test method whose setUp succeeded: it passes,
\* fails an assertion, raises another error, or skips itself
SkipMessage == "iOS test cases only, skipping"
TestOutcomes == {[kind |-> "pass", trace |-> ""], [kind |-> "skip", trace |-> SkipMessage]}
                  \cup {[kind |-> k, trace |-> s] : k \in {"failure", "error"}, s \in Traces}

\* the arguments a test method of the suite registers itself with
RegInputOf(t) == IF t = A_test1 THEN LoginInput ELSE CartInput

\* _outcome.success as tearDown sees it
OutcomeAtTearDown(o) == IF o.kind = "pass" THEN "success" ELSE "unsuccessful"

\* the tests of the queue that are not of class c
RECURSIVE WithoutClass(_, _)
WithoutClass(tests, c) ==
    IF tests = <<>> THEN <<>>
    ELSE IF Head(tests).cls = c THEN WithoutClass(Tail(tests), c)
    ELSE <<Head(tests)>> \o WithoutClass(Tail(tests), c)

SuiteInit ==
    /\ test_results = EmptyDict
    /\ external_case_ids = {}
    /\ clock = 0
    /\ calls = 0
    /\ lastOp = Idle
    /\ raised = "none"
    /\ ret = None
    /\ steps = <<>>
    /\ sel = NoCall
    /\ \E suite \in Suites, slack \in BOOLEAN, on_fail \in BOOLEAN :
          run = [pc              |-> "running",
                 suite           |-> suite,
                 queue           |-> suite,
                 current         |-> None,
                 classes         |-> {},
                 outcome         |-> EmptyDict,
                 results         |-> [failures |-> <<>>, errors |-> <<>>, skipped |-> <<>>],
                 SLACK_REPORTING |-> slack,
                 REPORT_ON_FAIL  |-> on_fail,
                 posted          |-> None,
                 setup_failed    |-> {},
                 runner_failed   |-> FALSE,
                 reconciliations |-> 0]

\* time passes while the suite runs
SuiteTick ==
    /\ run.pc \in {"running", "finished"}
    /\ clock < MaxTime
    /\ clock' = clock + 1
    /\ lastOp' = [op |-> "tick"]
    /\ raised' = "none"
    /\ ret' = None
    /\ steps' = <<>>
    /\ UNCHANGED <<test_results, external_case_ids, calls, run, sel>>

\* setUpClass of the class of the next test raises: the runner records an
\* _ErrorHolder in results.errors and runs none of the tests of that class
ClassSetUpFails ==
    /\ run.pc = "running"
    /\ run.current = None
    /\ run.queue # <<>>
    /\ LET c == Head(run.queue).cls IN
          /\ c \notin run.classes
          /\ run' = [run EXCEPT !.queue = WithoutClass(run.queue, c),
                                !.classes = @ \cup {c},
                                !.results.errors =
                                    Append(@, Entry(ErrorHolderOf(c), HolderTrace))]
    /\ lastOp' = [op |-> "setUpClass", raised |-> TRUE]
    /\ raised' = "none"
    /\ ret' = None
    /\ steps' = <<>>
    /\ UNCHANGED <<test_results, external_case_ids, clock, calls, sel>>

\* the runner starts the next test: setUp succeeds and the test method
\* registers itself with the reporter
StartTest ==
    /\ run.pc = "running"
    /\ run.current = None
    /\ run.queue # <<>>
    /\ LET t   == Head(run.queue)
           inp == RegInputOf(t)
       IN /\ test_results' = register_test_case(test_results, t, inp.case_ids,
                                 inp.feature_name, inp.test_target, clock)
          /\ external_case_ids' = register_external_ids(external_case_ids, inp.case_ids)
          /\ lastOp' = [op |-> "register_test_case", test |-> t, args |-> inp, now |-> clock]
          /\ run' = [run EXCEPT !.queue = Tail(@), !.current = Some(t),
                                !.classes = @ \cup {t.cls}]
    /\ raised' = "none"
    /\ ret' = None
    /\ steps' = <<>>
    /\ UNCHANGED <<clock, calls, sel>>

\* the text the runner files for a setUp that left through exit(1)
SetUpTrace == "SystemExit: 1"

\* QLTYTestCase.setUp of the next test: initialize_driver raises, setUp logs
\* and calls exit(1); the runner catches the SystemExit, files the test in
\* results.errors, runs neither the test method nor tearDown and goes on. The
\* test has registered itself before (in a setUp of its own) or not at all.
SetUpFails ==
    /\ run.pc = "running"
    /\ run.current = None
    /\ run.queue # <<>>
    /\ LET t   == Head(run.queue)
           inp == RegInputOf(t)
       IN \E registered \in BOOLEAN :
          /\ test_results' = IF registered
                              THEN register_test_case(test_results, t, inp.case_ids,
                                       inp.feature_name, inp.test_target, clock)
                              ELSE test_results
          /\ external_case_ids' = IF registered
                                   THEN register_external_ids(external_case_ids, inp.case_ids)
                                   ELSE external_case_ids
          /\ lastOp' = [op |-> "setUp", test |-> t, registered |-> registered]
          /\ run' = [run EXCEPT !.queue = Tail(@),
                                !.classes = @ \cup {t.cls},
                                !.setup_failed = @ \cup {t},
                                !.results.errors = Append(@, Entry(t, SetUpTrace))]
    /\ raised' = "none"
    /\ ret' = None
    /\ steps' = <<>>
    /\ UNCHANGED <<clock, calls, sel>>

\* the test method ends with outcome o, tearDown hands the test to
\* add_test_case_result, and the runner files the test in its result lists
FinishTest ==
    /\ run.pc = "running"
    /\ run.current # None
    /\ LET t == run.current[1] IN
       \E o \in TestOutcomes :
          /\ test_results' = add_test_case_result(test_results, t, OutcomeAtTearDown(o), clock)
          /\ lastOp' = [op |-> "add_test_case_result", test |-> t,
                        outcome |-> OutcomeAtTearDown(o), now |-> clock]
          /\ run' = [run EXCEPT
                       !.current = None,
                       !.outcome = (t :> o) @@ @,
                       !.results.failures = IF o.kind = "failure"
                                            THEN Append(@, Entry(t, o.trace)) ELSE @,
                       !.results.errors   = IF o.kind = "error"
                                            THEN Append(@, Entry(t, o.trace)) ELSE @,
                       !.results.skipped  = IF o.kind = "skip"
                                            THEN Append(@, Entry(t, o.trace)) ELSE @]
    /\ raised' = "none"
    /\ ret' = None
    /\ steps' = <<>>
    /\ UNCHANGED <<external_case_ids, clock, calls, sel>>

\* TextTestRunner.run itself raises: _execute logs and calls exit(1), the
\* process ends without reconciliation and without a report
RunnerRaises ==
    /\ run.pc = "running"
    /\ run' = [run EXCEPT !.pc = "aborted", !.runner_failed = TRUE]
    /\ lastOp' = [op |-> "run", raised |-> TRUE]
    /\ raised' = "none"
    /\ ret' = None
    /\ steps' = <<>>
    /\ UNCHANGED <<test_results, external_case_ids, clock, calls, sel>>

\* TextTestRunner.run returns once every test has run
RunnerReturns ==
    /\ run.pc = "running"
    /\ run.current = None
    /\ run.queue = <<>>
    /\ run' = [run EXCEPT !.pc = "finished"]
    /\ lastOp' = [op |-> "run"]
    /\ raised' = "none"
    /\ ret' = None
    /\ steps' = <<>>
    /\ UNCHANGED <<test_results, external_case_ids, clock, calls, sel>>

\* (variant) a reconciliation that does not wait for the runner to return
Reconcile_before_the_runner_returns ==
    /\ run.pc \in {"running", "finished"}
    /\ LET results == [failures |-> run.results.failures, errors |-> run.results.errors]
           done    == get_results(test_results, results)
       IN  /\ test_results' = done.store
           /\ raised' = done.raised
           /\ steps' = done.steps
           /\ lastOp' = [op |-> "get_results", results |-> results]
           /\ run' = [run EXCEPT !.pc = IF done.raised = "none" THEN "reconciled" ELSE "aborted",
                                 !.reconciliations = @ + 1]
    /\ ret' = None
    /\ UNCHANGED <<external_case_ids, clock, calls, sel>>

\* _report, first statement: test_reporter.get_results(results)
Reconcile ==
    /\ run.pc = "finished"
    /\ LET results == [failures |-> run.results.failures, errors |-> run.results.errors]
           done    == get_results(test_results, results)
       IN  /\ test_results' = done.store
           /\ raised' = done.raised
           /\ steps' = done.steps
           /\ lastOp' = [op |-> "get_results", results |-> results]
           /\ run' = [run EXCEPT !.pc = IF done.raised = "none" THEN "reconciled" ELSE "aborted",
                                 !.reconciliations = @ + 1]
    /\ ret' = None
    /\ UNCHANGED <<external_case_ids, clock, calls, sel>>

\* SlackReporter.report: the summary is posted unless there are failures
\* and REPORT_ON_FAIL is off
slack_report(totals, report_on_fail) ==
    IF totals.failed_testcases > 0 /\ ~report_on_fail THEN None ELSE Some(totals)

\* _report, second statement: TestRunnerUtils.report(test_results, ...)
Report ==
    /\ run.pc = "reconciled"
    /\ IF run.SLACK_REPORTING
       THEN LET totals == get_testrun_totals(test_results) IN
            /\ test_results' = totals.store
            /\ raised' = totals.raised
            /\ ret' = totals.value
            /\ run' = [run EXCEPT
                         !.pc = IF totals.raised = "none" THEN "reported" ELSE "aborted",
                         !.posted = IF totals.raised = "none"
                                    THEN slack_report(totals.value[1], run.REPORT_ON_FAIL)
                                    ELSE None]
       ELSE /\ test_results' = test_results
            /\ raised' = "none"
            /\ ret' = None
            /\ run' = [run EXCEPT !.pc = "reported"]
    /\ lastOp' = [op |-> "report"]
    /\ steps' = <<>>
    /\ UNCHANGED <<external_case_ids, clock, calls, sel>>

SuiteNext ==
    \/ SuiteTick
    \/ ClassSetUpFails
    \/ StartTest
    \/ SetUpFails
    \/ FinishTest
    \/ RunnerRaises
    \/ RunnerReturns
    \/ Reconcile
    \/ Report

SuiteSpec == SuiteInit /\ [][SuiteNext]_vars

\* --------------------- TestCaseSpec: setUp, the test, tearDown, test by test
\* the most webdrivers one test case holds
MaxDrivers == 2

\* the tests the runner takes through setUp and tearDown, in running order
LifecycleSuite == <<A_test1, A_test2>>

\* (variant) a setUp that leaves the drivers collection as it finds it
setUp_keeps_drivers(drivers) == drivers

\* setUp: self.drivers = []
setUp_drivers(drivers) == <<>>

\* initialize_driver, a driver was created: it is registered with the test
\* case, test_case.drivers.append(driver). A driver is named by the order of
\* its creation; owner, quits and quitters keep, for every driver, the test
\* it was created for, the calls of its quit() and the tests that made them.
registered_driver(r, t) ==
    [r EXCEPT !.drivers  = Append(@, Len(r.owner) + 1),
              !.owner    = Append(@, t),
              !.quits    = Append(@, 0),
              !.quitters = Append(@, {})]

\* n more drivers are created for test t and registered with it
RECURSIVE registered_drivers(_, _, _)
registered_drivers(r, t, n) ==
    IF n = 0 THEN r ELSE registered_drivers(registered_driver(r, t), t, n - 1)

TestCaseInit ==
    /\ test_results = EmptyDict
    /\ external_case_ids = {}
    /\ clock = 0
    /\ calls = 0
    /\ lastOp = Idle
    /\ raised = "none"
    /\ ret = None
    /\ steps = <<>>
    /\ sel = NoCall
    /\ \E managed \in BOOLEAN :
          run = [pc              |-> "next",
                 queue           |-> LifecycleSuite,
                 current         |-> None,
                 MANAGED_DRIVERS |-> managed,
                 drivers         |-> <<>>,
                 at              |-> 0,
                 owner           |-> <<>>,
                 quits           |-> <<>>,
                 quitters        |-> <<>>,
                 set_up          |-> {},
                 torn_down       |-> {}]

\* QLTYTestCase.setUp of the next test: the collection is reset; with
\* managed drivers initialize_driver creates nothing, otherwise it creates
\* and registers one driver, or raises and setUp leaves through exit(1), in
\* which case the runner runs neither the test nor its tearDown
SetUp ==
    /\ run.pc = "next"
    /\ run.queue # <<>>
    /\ LET t     == Head(run.queue)
           reset == [run EXCEPT !.queue = Tail(@), !.drivers = setUp_drivers(@), !.at = 0]
           ready == [reset EXCEPT !.pc = "test", !.current = Some(t), !.set_up = @ \cup {t}]
       IN  IF run.MANAGED_DRIVERS
           THEN run' = ready
           ELSE \E created \in BOOLEAN :
                   run' = IF created THEN registered_driver(ready, t) ELSE reset
    /\ UNCHANGED <<test_results, external_case_ids, clock, calls, lastOp, raised, ret, steps, sel>>

\* the test method: it registers itself with the reporter, or does not, and
\* creates the further drivers it needs through
\* initialize_driver(force_driver_creation=True)
TestMethod ==
    /\ run.pc = "test"
    /\ LET t   == run.current[1]
           inp == RegInputOf(t)
       IN  \E registers \in BOOLEAN, n \in 0..(MaxDrivers - Len(run.drivers)) :
              /\ test_results' = IF registers
                                  THEN register_test_case(test_results, t, inp.case_ids,
                                           inp.feature_name, inp.test_target, clock)
                                  ELSE test_results
              /\ external_case_ids' = IF registers
                                       THEN register_external_ids(external_case_ids, inp.case_ids)
                                       ELSE external_case_ids
              /\ run' = [registered_drivers(run, t, n) EXCEPT !.pc = "tearDown"]
    /\ UNCHANGED <<clock, calls, lastOp, raised, ret, steps, sel>>

\* tearDown, first statement: test_reporter.add_test_case_result(self). For
\* a test without a record it raises, and tearDown ends there.
TearDownRecords ==
    /\ run.pc = "tearDown"
    /\ LET t == run.current[1] IN
       \E o \in TestOutcomes :
          IF Registered(test_results, t)
          THEN /\ test_results' = add_test_case_result(test_results, t,
                                                       OutcomeAtTearDown(o), clock)
               /\ run' = [run EXCEPT !.pc = "drivers", !.at = 1]
          ELSE /\ test_results' = test_results
               /\ run' = [run EXCEPT !.pc = "next", !.current = None]
    /\ UNCHANGED <<external_case_ids, clock, calls, lastOp, raised, ret, steps, sel>>

\* tearDown, one pass of for driver in self.drivers: the logs and the
\* screenshot are saved and driver.quit() is called; a pass in which the
\* saving or the quit raises ends tearDown
TearDownDriver ==
    /\ run.pc = "drivers"
    /\ run.at <= Len(run.drivers)
    /\ LET t == run.current[1]
           d == run.drivers[run.at]
           quit == [run EXCEPT !.quits[d] = @ + 1, !.quitters[d] = @ \cup {t}]
       IN  \E pass \in {"quit", "dump raises", "quit raises"} :
              run' = CASE pass = "quit" -> [quit EXCEPT !.at = @ + 1]
                       [] pass = "dump raises" -> [run EXCEPT !.pc = "next", !.current = None]
                       [] pass = "quit raises" -> [quit EXCEPT !.pc = "next", !.current = None]
    /\ UNCHANGED <<test_results, external_case_ids, clock, calls, lastOp, raised, ret, steps, sel>>

\* tearDown returns: the loop has been through every driver of the collection
TearDownReturns ==
    /\ run.pc = "drivers"
    /\ run.at > Len(run.drivers)
    /\ run' = [run EXCEPT !.pc = "next", !.current = None,
                          !.torn_down = @ \cup {run.current[1]}]
    /\ UNCHANGED <<test_results, external_case_ids, clock, calls, lastOp, raised, ret, steps, sel>>

TestCaseNext ==
    \/ SetUp
    \/ TestMethod
    \/ TearDownRecords
    \/ TearDownDriver
    \/ TearDownReturns

TestCaseSpec == TestCaseInit /\ [][TestCaseNext]_vars

\* ------------------------------ RunTimeSpec: get_readable_run_time, alone
\* the longest run time handed to get_readable_run_time, in seconds
MaxRunTime == 7325

\* (variant) get_readable_run_time that does not take the hours off before
\* it counts the minutes
get_readable_run_time_keeps_hours(test_run_time) ==
    LET hours     == IF test_run_time \div 3600 > 0
                     THEN Decimal(test_run_time \div 3600) \o "h " ELSE ""
        minutes   == IF test_run_time \div 60 > 0
                     THEN Decimal(test_run_time \div 60) \o "m " ELSE ""
        remaining == test_run_time % 60
    IN  hours \o minutes \o Decimal(remaining) \o "s"

\* get_readable_run_time for a whole number of seconds: the hours part, then
\* what is left modulo 3600 gives the minutes part, then what is left
\* modulo 60 gives the seconds
get_readable_run_time(test_run_time) ==
    LET hours     == IF test_run_time \div 3600 > 0
                     THEN Decimal(test_run_time \div 3600) \o "h " ELSE ""
        left      == test_run_time % 3600
        minutes   == IF left \div 60 > 0 THEN Decimal(left \div 60) \o "m " ELSE ""
        remaining == left % 60
    IN  hours \o minutes \o Decimal(remaining) \o "s"

\* get_readable_run_time(test_run_time) is called
GetReadableRunTime ==
    /\ lastOp = Idle
    /\ \E test_run_time \in 0..MaxRunTime :
          /\ ret' = Some(get_readable_run_time(test_run_time))
          /\ lastOp' = [op |-> "get_readable_run_time", test_run_time |-> test_run_time]
    /\ raised' = "none"
    /\ steps' = <<>>
    /\ UNCHANGED <<test_results, external_case_ids, clock, calls, run, sel>>

RunTimeNext ==
    \/ GetReadableRunTime
    \/ Return

RunTimeSpec == Init /\ [][RunTimeNext]_vars

\* ================================================================ claims
Rec(tr, t) == tr[t.cls][t.method]
StatusOf(tr, t) == Rec(tr, t).status
Terminal(tr, t) == Registered(tr, t) /\ StatusOf(tr, t) \in {"passed", "failed"}
WithStatus(tr, st) == {t \in Keys(tr) : StatusOf(tr, t) = st}

\* the diagnostic texts results carries for test t, in either list
TracesFor(results, t) ==
    {results.failures[i].trace : i \in {j \in 1..Len(results.failures) :
                                           results.failures[j].test = t}}
      \cup {results.errors[i].trace : i \in {j \in 1..Len(results.errors) :
                                                results.errors[j].test = t}}

\* ---- C1: the end-to-end scenario. A run of the suite A.test1, A.test2 in
\* which test1 passes and test2 fails with "AssertionError: x != y", so that
\* get_results gets failures = [(A.test2, that text)] and errors = [], ends
\* with test1 passed, test2 failed with that message, and the totals
\* 2 / 1 / 1 / "50.0%" / "50.0%".
C1_Scenario ==
    /\ run.pc = "reported"
    /\ run.SLACK_REPORTING
    /\ run.suite = <<A_test1, A_test2>>
    /\ run.results.failures = <<Entry(A_test2, "AssertionError: x != y")>>
    /\ run.results.errors = <<>>
    /\ run.outcome[A_test1].kind = "pass"

C1_EndToEnd ==
    C1_Scenario =>
        /\ StatusOf(test_results, A_test1) = "passed"
        /\ StatusOf(test_results, A_test2) = "failed"
        /\ Rec(test_results, A_test2).message = "AssertionError: x != y"
        /\ ret = Some([total_testcases   |-> 2,
                       passed_testcases  |-> 1,
                       failed_testcases  |-> 1,
                       passed_percentage |-> "50.0%",
                       failed_percentage |-> "50.0%"])

C1_Witness == C1_Scenario /\ raised = "none"

\* ---- C2 (as claimed): once a record's status is passed or failed, no call
\* changes it.
C2_TerminalStatusNeverChanges ==
    [][\A t \in AllTests :
          Terminal(test_results, t) =>
              /\ Registered(test_results', t)
              /\ StatusOf(test_results', t) = StatusOf(test_results, t)]_vars

\* ---- C2 (amended): a passed or failed status changes in three ways only:
\* register_test_case for the same test puts it back to untested,
\* get_results moves a passed record that it lists to failed, and
\* add_test_case_result with a successful outcome moves a failed record to
\* passed. No other call changes it.
C2_TerminalStatusChangesOnlyBy ==
    [][\A t \in AllTests :
          Terminal(test_results, t) =>
              \/ /\ Registered(test_results', t)
                 /\ StatusOf(test_results', t) = StatusOf(test_results, t)
              \/ /\ lastOp'.op = "register_test_case"
                 /\ lastOp'.test = t
                 /\ Registered(test_results', t)
                 /\ StatusOf(test_results', t) = "untested"
              \/ /\ lastOp'.op = "get_results"
                 /\ Registered(test_results', t)
                 /\ TracesFor(lastOp'.results, t) # {}
                 /\ StatusOf(test_results, t) = "passed"
                 /\ StatusOf(test_results', t) = "failed"
              \/ /\ lastOp'.op = "add_test_case_result"
                 /\ lastOp'.test = t
                 /\ lastOp'.outcome = "success"
                 /\ Registered(test_results', t)
                 /\ StatusOf(test_results, t) = "failed"
                 /\ StatusOf(test_results', t) = "passed"]_vars

\* a passed record has been through an unsuccessful add_test_case_result
C2_Witness ==
    /\ lastOp.op = "add_test_case_result"
    /\ raised = "none"
    /\ lastOp.outcome = "unsuccessful"
    /\ StatusOf(test_results, lastOp.test) = "passed"

\* ---- C3: after get_results returns, every entry of failures and errors
\* for a registered ordinary test has left that test failed, with the text
\* of one of the entries for that test as its message, also when the entry
\* comes after a setup-failure marker in its list.
C3_EveryListedTestFailed ==
    (lastOp.op = "get_results" /\ raised = "none") =>
        \A t \in Keys(test_results) :
            TracesFor(lastOp.results, t) # {} =>
                /\ StatusOf(test_results, t) = "failed"
                /\ Rec(test_results, t).message \in TracesFor(lastOp.results, t)

\* ---- C4: once the suite has run and get_results has been applied, no
\* record is left untested, whatever the outcome of each test.
C4_NoRecordLeftUntested ==
    run.pc \in {"reconciled", "reported"} =>
        \A t \in Keys(test_results) : StatusOf(test_results, t) \in {"passed", "failed"}

\* ---- C5: over a store with p passed, f failed and u untested records,
\* p + f > 0, get_testrun_totals returns passed = p, failed = f and
\* total = p + f; the untested records are in no count.
C5_TotalsCountTerminalRecords ==
    LET p == Cardinality(WithStatus(test_results, "passed"))
        f == Cardinality(WithStatus(test_results, "failed"))
    IN  (lastOp.op = "get_testrun_totals" /\ p + f > 0) =>
            /\ raised = "none"
            /\ ret # None
            /\ ret[1].passed_testcases = p
            /\ ret[1].failed_testcases = f
            /\ ret[1].total_testcases = p + f

C5_Witness ==
    /\ lastOp.op = "get_testrun_totals"
    /\ raised = "none"
    /\ WithStatus(test_results, "untested") # {}
    /\ WithStatus(test_results, "passed") # {}

\* ---- C6: over a store with no passed and no failed record,
\* get_testrun_totals returns total 0 and "0.0%" twice, and does not raise.
C6_EmptyRunTotals ==
    (lastOp.op = "get_testrun_totals"
       /\ WithStatus(test_results, "passed") = {}
       /\ WithStatus(test_results, "failed") = {}) =>
        /\ raised = "none"
        /\ ret = Some([total_testcases   |-> 0,
                       passed_testcases  |-> 0,
                       failed_testcases  |-> 0,
                       passed_percentage |-> "0.0%",
                       failed_percentage |-> "0.0%"])

\* ---- C7: add_test_case_result sets the status to passed exactly when the
\* outcome object exists and reports success, and otherwise leaves the
\* status as it was; it never sets failed.
C7_PassedOnlyOnSuccess ==
    [][(lastOp'.op = "add_test_case_result" /\ raised' = "none") =>
          LET t == lastOp'.test IN
          /\ Registered(test_results, t)
          /\ Registered(test_results', t)
          /\ StatusOf(test_results', t) =
                IF lastOp'.outcome = "success" THEN "passed"
                ELSE StatusOf(test_results, t)]_vars

C7_Witness ==
    /\ lastOp.op = "add_test_case_result"
    /\ raised = "none"
    /\ lastOp.outcome = "success"
    /\ StatusOf(test_results, lastOp.test) = "passed"

\* ---- C8: a loop pass of _get_failed_results over a setup-failure marker
\* entry leaves the store exactly as it found it.
C8_MarkerEntryChangesNothing ==
    \A i \in 1..Len(steps) :
        steps[i].entry.test.cls = "_ErrorHolder" => steps[i].after = steps[i].before

C8_Witness ==
    /\ lastOp.op = "get_results"
    /\ Keys(test_results) # {}
    /\ \E i \in 1..Len(steps) : steps[i].entry.test.cls = "_ErrorHolder"

\* the fields of a record other than its status and its registration data
OtherFields(r) == <<r.message, r.start_time, r.end_time, r.duration, r.test_case_ids>>

\* ---- C9 (as claimed): once a record is passed or failed, no later call
\* changes its message, start_time, end_time, duration or test_case_ids.
C9_TerminalRecordFrozen ==
    [][\A t \in AllTests :
          Terminal(test_results, t) =>
              /\ Registered(test_results', t)
              /\ OtherFields(Rec(test_results', t)) = OtherFields(Rec(test_results, t))]_vars

\* ---- C9 (amended): once a record is passed or failed, a later
\* add_test_case_result changes none of its message, start_time and
\* test_case_ids (it sets end_time and duration anew), a later get_results
\* changes none of its start_time, end_time, duration and test_case_ids (it
\* overwrites the message of a test it lists), and get_testrun_totals
\* changes nothing; register_test_case replaces the whole record.
C9_TerminalRecordFrame ==
    [][\A t \in AllTests :
          Terminal(test_results, t) =>
              LET old == Rec(test_results, t)
                  new == Rec(test_results', t)
              IN
              /\ lastOp'.op # "register_test_case" => Registered(test_results', t)
              /\ lastOp'.op = "add_test_case_result" =>
                    /\ new.message = old.message
                    /\ new.start_time = old.start_time
                    /\ new.test_case_ids = old.test_case_ids
              /\ lastOp'.op = "get_results" =>
                    /\ new.start_time = old.start_time
                    /\ new.end_time = old.end_time
                    /\ new.duration = old.duration
                    /\ new.test_case_ids = old.test_case_ids
                    /\ (TracesFor(lastOp'.results, t) = {} => new.message = old.message)
              /\ lastOp'.op \in {"get_testrun_totals", "idle"} => new = old]_vars

\* a failed record, with its message, has been through add_test_case_result
C9_Witness ==
    /\ lastOp.op = "add_test_case_result"
    /\ raised = "none"
    /\ lastOp.outcome = "success"
    /\ Rec(test_results, lastOp.test).message # ""

\* ---- C10: right after register_test_case(test, case_ids, feature_name,
\* test_target) the store holds, under the test's class and method, a record
\* that is untested, started at the registration time, with no end_time, no
\* duration, an empty message, the given feature_name and test_target and
\* test_case_ids = case_ids.
C10_FreshRecordAfterRegistration ==
    lastOp.op = "register_test_case" =>
        /\ Registered(test_results, lastOp.test)
        /\ Rec(test_results, lastOp.test) =
              [status        |-> "untested",
               start_time    |-> lastOp.now,
               end_time      |-> None,
               duration      |-> None,
               test_case_ids |-> lastOp.args.case_ids,
               message       |-> "",
               feature_name  |-> lastOp.args.feature_name,
               test_target   |-> lastOp.args.test_target]

C10_Witness ==
    /\ lastOp.op = "register_test_case"
    /\ lastOp.args.case_ids # <<>>
    /\ lastOp.now > 0

\* C11 (as stated): the feature_name and the test_target of a record never
\* change once the record exists, whatever calls follow.
C11_MetadataNeverChanges ==
    [][\A t \in TestCases :
          Registered(test_results, t) =>
              /\ Registered(test_results', t)
              /\ Rec(test_results', t).feature_name = Rec(test_results, t).feature_name
              /\ Rec(test_results', t).test_target = Rec(test_results, t).test_target]_vars

\* C11 (amended): the feature_name and the test_target of a record change only
\* by a register_test_case call for the same test, which sets them to the
\* values it was given; add_test_case_result, get_results and
\* get_testrun_totals never change them.
C11_MetadataChangesOnlyByRegistration ==
    [][\A t \in TestCases :
          Registered(test_results, t) =>
              /\ Registered(test_results', t)
              /\ \/ /\ Rec(test_results', t).feature_name = Rec(test_results, t).feature_name
                    /\ Rec(test_results', t).test_target = Rec(test_results, t).test_target
                 \/ /\ lastOp'.op = "register_test_case"
                    /\ lastOp'.test = t
                    /\ Rec(test_results', t).feature_name = lastOp'.args.feature_name
                    /\ Rec(test_results', t).test_target = lastOp'.args.test_target]_vars

\* a record marked failed by get_results that still has the feature and the
\* target of its registration
C11_Witness ==
    /\ lastOp.op = "get_results"
    /\ raised = "none"
    /\ \E i \in 1..Len(steps) :
          LET t == steps[i].entry.test IN
          /\ Registered(test_results, t)
          /\ Rec(test_results, t).status = "failed"
          /\ Rec(steps[i].before, t).status = "passed"
          /\ Rec(test_results, t).feature_name = Rec(steps[i].before, t).feature_name
          /\ Rec(test_results, t).feature_name # ""

\* =================================================== SeleniumOperations
\* Time is counted in poll intervals of WebDriverWait (its poll frequency).
MaxTimeout == 2    \* the longest timeout a call is given
MaxStep == 2       \* the longest one pass of a wait loop takes (method + sleep)

\* the variables of the reporter and of the runner
api_vars == <<test_results, external_case_ids, clock, calls, lastOp, raised, ret, steps, run>>

\* Python values a wait condition can give
PyBool(b) == [py |-> "bool", b |-> b]
PyNone == [py |-> "None"]
Truthy(v) == CASE v.py = "bool" -> v.b
               [] v.py = "None" -> FALSE
               [] v.py = "list" -> v.items # <<>>
               [] OTHER -> TRUE

\* exceptions: the type and the message, the message as the parts it is
\* formatted from
Exc(type, message) == [type |-> type, message |-> message]
StaleElementReferenceException ==
    Exc("StaleElementReferenceException", <<"stale element reference">>)
NoSuchElementException == Exc("NoSuchElementException", <<"no such element">>)
WebDriverException == Exc("WebDriverException", <<"invalid session id">>)
TimeoutException(message) == Exc("TimeoutException", message)

\* how a call, or one evaluation of a method, ends
Returns(v) == [kind |-> "return", value |-> v]
Raises(e) == [kind |-> "raise", exc |-> e]
\* a pass of a wait loop that ends neither way: the loop goes round again
Again == [kind |-> "again"]

\* WebDriverWait: the exceptions every wait ignores, whatever the call names
IGNORED_EXCEPTIONS == {"NoSuchElementException"}

\* WebDriverWait.until, what ends the loop at once: a truthy value, which is
\* returned, and an exception that is not ignored, which propagates
settles(o, ignored_exceptions) ==
    \/ o.kind = "return" /\ Truthy(o.value)
    \/ o.kind = "raise" /\ o.exc.type \notin IGNORED_EXCEPTIONS \cup ignored_exceptions

\* (variant) an until that gives up after the first pass that does not settle
until_pass_gives_up(o, later, end_time, ignored_exceptions, message) ==
    IF settles(o, ignored_exceptions) THEN o
    ELSE Raises(TimeoutException(message))

\* WebDriverWait.until, one pass of its loop: the method ended as o; unless
\* that settles the wait, the loop sleeps and, at time later, times out or
\* goes round again
until_pass(o, later, end_time, ignored_exceptions, message) ==
    IF settles(o, ignored_exceptions) THEN o
    ELSE IF later > end_time THEN Raises(TimeoutException(message))
    ELSE Again

\* ---- wait_for
MethodValues == {"ready", "loading"}
MethodOutcomes ==
    {Returns(v) : v \in MethodValues} \cup
    {Raises(StaleElementReferenceException), Raises(NoSuchElementException),
     Raises(WebDriverException)}

\* lambda x: method() == expected_result
wait_for_condition(o, expected_result) ==
    IF o.kind = "return" THEN Returns(PyBool(o.value = expected_result)) ELSE o

\* (variant) a wait_for that names no exception to ignore
wait_for_ignores_nothing == {}

wait_for_ignored == {"StaleElementReferenceException"}
wait_for_message == <<"Method result never matched the expected value">>

\* ---- the driver: elements, locators, what its commands can do
Element(id) == [py |-> "WebElement", id |-> id]
Elements == {Element("e1"), Element("e2")}
PyList(items) == [py |-> "list", items |-> items]
Locators == {<<"id", "submit">>, <<"xpath", "//button">>}

ElementClickInterceptedException ==
    Exc("ElementClickInterceptedException", <<"element click intercepted">>)

\* driver.find_element: an element, or a not-found error
find_element_outcomes ==
    {Returns(e) : e \in Elements} \cup {Raises(NoSuchElementException)}

\* driver.find_elements: the list of the elements that match, empty if none
find_elements_outcomes ==
    {Returns(PyList(l)) : l \in {<<>>, <<Element("e1")>>, <<Element("e1"), Element("e2")>>}}

\* element.click(), and the script that clicks: done, or an exception
click_outcomes ==
    {Returns(PyNone), Raises(StaleElementReferenceException),
     Raises(ElementClickInterceptedException)}

\* find_element, then is_displayed() and is_enabled() of the element found
Probe(found, displayed, enabled) ==
    [found |-> found, displayed |-> displayed, enabled |-> enabled]
probe_outcomes ==
    {Probe(Raises(NoSuchElementException), Returns(PyBool(FALSE)), FALSE)} \cup
    {Probe(Returns(Element("e1")), d, en) :
        d \in {Returns(PyBool(TRUE)), Returns(PyBool(FALSE)),
               Raises(StaleElementReferenceException)},
        en \in BOOLEAN}

\* ---- get_element, get_elements
get_element_ignored == {"StaleElementReferenceException"}
get_element_message(locator) ==
    <<"Element could not be found using the specified criteria:", "Strategy:",
      locator[1], "Selector:", locator[2]>>

\* how a call of get_element made inside another operation can end: with the
\* element, with the timeout of its wait, or with the not-found error of the
\* lookup that follows the wait
get_element_results(locator) ==
    {Returns(e) : e \in Elements} \cup
    {Raises(TimeoutException(get_element_message(locator))),
     Raises(NoSuchElementException)}

get_elements_ignored == {}
get_elements_message(locator) ==
    <<"No matching elements found using the specified criteria:", "Strategy:",
      locator[1], "Selector:", locator[2]>>

\* ---- wait_for_element_to_not_be_visible
\* a probe of the first element that matches, together with is_displayed() of
\* the further elements that match the locator, which find_element leaves out
Sight(p, rest) == [found |-> p.found, displayed |-> p.displayed, enabled |-> p.enabled,
                   rest |-> rest]
sight_outcomes ==
    {Sight(p, <<>>) : p \in probe_outcomes} \cup
    {Sight(p, <<d>>) : p \in {q \in probe_outcomes : q.found.kind = "return" /\ q.enabled},
                       d \in BOOLEAN}

\* (variant) a condition that holds while the element is displayed
invisibility_of_element_inverted(p) ==
    IF p.found.kind = "raise" \/ p.displayed.kind = "raise" THEN Returns(PyBool(TRUE))
    ELSE IF p.displayed.value = PyBool(TRUE) THEN p.found
    ELSE Returns(PyBool(FALSE))

\* invisibility_of_element: an element that is gone or stale is invisible
invisibility_of_element(p) ==
    IF p.found.kind = "raise" \/ p.displayed.kind = "raise" THEN Returns(PyBool(TRUE))
    ELSE IF p.displayed.value = PyBool(FALSE) THEN p.found
    ELSE Returns(PyBool(FALSE))

not_visible_ignored == {}
not_visible_message(locator) ==
    <<"Element remained visible:", "Strategy:", locator[1], "Selector:", locator[2]>>

\* ---- browser_tap, op_click_element
\* element_to_be_clickable: the element, once it is displayed and enabled
element_to_be_clickable(p) ==
    IF p.found.kind = "raise" THEN p.found
    ELSE IF p.displayed.kind = "raise" THEN p.displayed
    ELSE IF p.displayed.value = PyBool(TRUE) /\ p.enabled THEN p.found
    ELSE Returns(PyBool(FALSE))

clickable_ignored == {"StaleElementReferenceException"}
clickable_message(locator) ==
    <<"Element never became clickable:", "Strategy:", locator[1], "Selector:", locator[2]>>

Platforms == {"ios", "android", "ios_web", "android_web"}
browser_tap_unsupported ==
    Exc("RuntimeError", <<"Browser tap is only supported for mobile browser automation">>)

\* ---- tap
\* one attempt of tap: get_element(locator), then the click on what it gave
Attempt(lookup, click) == [lookup |-> lookup, click |-> click]
tap_attempts(locator) ==
    {Attempt(r, k) : r \in {x \in get_element_results(locator) : x.kind = "return"},
                     k \in click_outcomes} \cup
    {Attempt(r, Returns(PyNone)) : r \in {x \in get_element_results(locator) : x.kind = "raise"}}

\* (variant) a _bool_click that returns nothing after a click that went through
_bool_click_returns_nothing(k) ==
    IF k.kind = "return" THEN Returns(PyNone) ELSE Returns(PyBool(FALSE))

\* (variant) a _bool_click that answers True whatever the click did
_bool_click_always(k) == Returns(PyBool(TRUE))

\* _bool_click: True if the click went through, False whatever it raised
_bool_click(k) == IF k.kind = "return" THEN Returns(PyBool(TRUE)) ELSE Returns(PyBool(FALSE))

\* lambda x: self._bool_click(self.get_element(locator))
tap_condition(o) == IF o.lookup.kind = "raise" THEN o.lookup ELSE _bool_click(o.click)

tap_ignored == {"StaleElementReferenceException", "NoSuchElementException"}
\* tap gives until no message: the default, the empty string
tap_message == <<>>

\* ---- wait_for_text_in_elements
\* a text is the sequence of its characters
Okay == <<"O", "K", "A", "Y">>
No == <<"N", "O">>
SearchTexts == {<<"O", "K">>, <<"N", "O">>}

\* text in element, of two Python strings
contains(element, text) ==
    \E i \in 1..(Len(element) + 1) :
        /\ i + Len(text) - 1 <= Len(element)
        /\ SubSeq(element, i, i + Len(text) - 1) = text

\* an element that matches the locator, and what reading its text gives
Shown(id, text) == [element |-> Element(id), text |-> text]

\* what find_elements can give at a poll: the elements that match, in order
Pages ==
    {<<>>,
     <<Shown("e1", Returns(No))>>,
     <<Shown("e1", Raises(StaleElementReferenceException))>>,
     <<Shown("e1", Returns(No)), Shown("e2", Returns(Okay))>>,
     <<Shown("e1", Returns(Okay)), Shown("e2", Returns(Okay))>>,
     <<Shown("e1", Returns(Okay)), Shown("e2", Raises(StaleElementReferenceException))>>}

\* (variant) a search that returns the last element whose text contains text
_text_to_be_present_in_elements_last(page, text) ==
    IF \E i \in 1..Len(page) : page[i].text.kind = "raise"
    THEN Returns(PyBool(FALSE))
    ELSE LET hits == {i \in 1..Len(page) : contains(page[i].text.value, text)}
         IN  IF hits = {} THEN Returns(PyNone)
             ELSE Returns(page[CHOOSE i \in hits : \A j \in hits : i >= j].element)

\* _text_to_be_present_in_elements: the texts are all read first, a stale
\* element among them gives False; then the first element whose text contains
\* text is returned, and None when there is none
_text_to_be_present_in_elements(page, text) ==
    IF \E i \in 1..Len(page) : page[i].text.kind = "raise"
    THEN Returns(PyBool(FALSE))
    ELSE LET hits == {i \in 1..Len(page) : contains(page[i].text.value, text)}
         IN  IF hits = {} THEN Returns(PyNone)
             ELSE Returns(page[CHOOSE i \in hits : \A j \in hits : i <= j].element)

text_in_elements_ignored == {"StaleElementReferenceException"}
text_in_elements_message(locator, text) ==
    <<"No elements contained the specified text:", "Strategy:", locator[1],
      "Selector:", locator[2], "Expected Text:", text>>

\* ---- swipe, swipe_until_visible
MaxAttempts == 3    \* the largest number of attempts a call is given

\* utils.ANDROID_SWIPE_OFFSETS, the coordinates in hundredths
ANDROID_SWIPE_OFFSETS ==
    [up   |-> [start_x |-> 50, start_y |-> 90, end_x |-> 50, end_y |-> 0],
     down |-> [start_x |-> 50, start_y |-> 90, end_x |-> 50, end_y |-> 45]]

KeyError(key) == Exc("KeyError", <<key>>)

\* _swipe_ios: the gesture is named by offset['direction']
_swipe_ios(offset) ==
    IF "direction" \in DOMAIN offset THEN Returns(PyNone) ELSE Raises(KeyError("direction"))

\* _swipe_android: the gesture is drawn between the coordinates of offset
_swipe_android(offset) ==
    IF {"start_x", "start_y", "end_x", "end_y"} \subseteq DOMAIN offset
    THEN Returns(PyNone)
    ELSE Raises(KeyError("start_x"))

\* swipe: the gesture of the platform
swipe(platform, offset) ==
    IF platform = "ios" THEN _swipe_ios(offset) ELSE _swipe_android(offset)

\* str(locator)
LocatorText(locator) == "('" \o locator[1] \o "', '" \o locator[2] \o "')"

\* (variant) a message that leaves the locator out
swipe_until_visible_message_bare(locator) ==
    <<"Element could not be found after performing swipe operations">>

swipe_until_visible_message(locator) ==
    <<"Element could not be found using locator ", LocatorText(locator),
      " after performing swipe operations">>

\* the attempts are used up: raise NoSuchElementException(...)
exhausted(c) ==
    [c EXCEPT !.pc = "raised",
              !.result = Raises(Exc("NoSuchElementException",
                                    swipe_until_visible_message(c.locator)))]

\* swipe_until_visible(locator, attempts) is called
SwipeUntilVisible ==
    /\ sel.pc = "idle"
    /\ \E locator \in Locators, attempts \in 0..MaxAttempts, platform \in Platforms :
          LET c == [op |-> "swipe_until_visible", pc |-> "looking", locator |-> locator,
                    given |-> attempts, attempts |-> attempts, platform |-> platform,
                    gestures |-> 0, log |-> <<>>, result |-> Again]
          IN  sel' = IF attempts > 0 THEN c ELSE exhausted(c)
    /\ UNCHANGED api_vars

\* driver.find_element inside the loop of swipe_until_visible: an element,
\* no such element, or an error of the driver itself
swipe_lookup_outcomes == find_element_outcomes \cup {Raises(WebDriverException)}

\* swipe_until_visible, except NoSuchElementException: the outcomes of the
\* lookup after which the gesture is made
swiped_after(o) == o = Raises(NoSuchElementException)

\* one pass of the loop of swipe_until_visible: the lookup and, when it finds
\* nothing, the gesture
Lookup ==
    /\ sel.pc = "looking"
    /\ \E o \in swipe_lookup_outcomes :
          LET looked  == [sel EXCEPT !.log = Append(@, o)]
              gesture == swipe(sel.platform, ANDROID_SWIPE_OFFSETS.down)
              swiped  == [looked EXCEPT !.gestures = @ + 1, !.attempts = @ - 1]
          IN  sel' = IF o.kind = "return"
                     THEN [looked EXCEPT !.pc = "returned", !.result = o]
                     ELSE IF ~swiped_after(o)
                     THEN [looked EXCEPT !.pc = "raised", !.result = o]
                     ELSE IF gesture.kind = "raise"
                     THEN [looked EXCEPT !.pc = "raised", !.result = gesture]
                     ELSE IF swiped.attempts > 0 THEN swiped
                     ELSE exhausted(swiped)
    /\ UNCHANGED api_vars

\* ---- try_fetch
\* what the function handed to try_fetch can do
FunctionOutcomes ==
    {Returns(e) : e \in Elements} \cup
    {Returns(PyList(<<>>)),
     Raises(NoSuchElementException), Raises(StaleElementReferenceException),
     Raises(WebDriverException)}

\* (variant) a try_fetch that turns every exception into None
try_fetch_catches_all(o) ==
    IF o.kind = "raise" THEN Returns(PyNone) ELSE o

\* try_fetch: the result of function(), None for a not-found error
try_fetch(o) ==
    IF o = Raises(NoSuchElementException) THEN Returns(PyNone) ELSE o

\* try_fetch(function) is called, and ends
TryFetch ==
    /\ sel.pc = "idle"
    /\ \E o \in FunctionOutcomes :
          LET r == try_fetch(o)
          IN  sel' = [op |-> "try_fetch",
                      pc |-> IF r.kind = "return" THEN "returned" ELSE "raised",
                      now |-> 0, polls |-> 0, log |-> <<o>>, result |-> r]
    /\ UNCHANGED api_vars

\* ---- the wait of the call in progress
\* what the method of the wait can do when it is evaluated
outcomes_of(c) ==
    CASE c.op = "wait_for" -> MethodOutcomes
      [] c.op = "get_element" -> find_element_outcomes
      [] c.op = "get_elements" -> find_elements_outcomes
      [] c.op = "wait_for_element_to_not_be_visible" -> sight_outcomes
      [] c.op \in {"browser_tap", "op_click_element"} -> probe_outcomes
      [] c.op = "tap" -> tap_attempts(c.locator)
      [] c.op = "wait_for_text_in_elements" -> Pages

\* the condition the wait polls, given what the method did
condition_of(c, o) ==
    CASE c.op = "wait_for" -> wait_for_condition(o, c.expected_result)
      [] c.op \in {"get_element", "get_elements"} -> o
      [] c.op = "wait_for_element_to_not_be_visible" -> invisibility_of_element(o)
      [] c.op \in {"browser_tap", "op_click_element"} -> element_to_be_clickable(o)
      [] c.op = "tap" -> tap_condition(o)
      [] c.op = "wait_for_text_in_elements" -> _text_to_be_present_in_elements(o, c.text)

ignored_of(c) ==
    CASE c.op = "wait_for" -> wait_for_ignored
      [] c.op = "get_element" -> get_element_ignored
      [] c.op = "get_elements" -> get_elements_ignored
      [] c.op = "wait_for_element_to_not_be_visible" -> not_visible_ignored
      [] c.op \in {"browser_tap", "op_click_element"} -> clickable_ignored
      [] c.op = "tap" -> tap_ignored
      [] c.op = "wait_for_text_in_elements" -> text_in_elements_ignored

message_of(c) ==
    CASE c.op = "wait_for" -> wait_for_message
      [] c.op = "get_element" -> get_element_message(c.locator)
      [] c.op = "get_elements" -> get_elements_message(c.locator)
      [] c.op = "wait_for_element_to_not_be_visible" -> not_visible_message(c.locator)
      [] c.op \in {"browser_tap", "op_click_element"} -> clickable_message(c.locator)
      [] c.op = "tap" -> tap_message
      [] c.op = "wait_for_text_in_elements" -> text_in_elements_message(c.locator, c.text)

\* (variant) get_element and get_elements hand back what the wait returned
after_wait_returns_polled(c, v) ==
    CASE c.op \in {"wait_for", "wait_for_text_in_elements"} ->
            [c EXCEPT !.pc = "returned", !.result = Returns(v)]
      [] c.op \in {"get_element", "get_elements"} ->
            [c EXCEPT !.pc = "returned", !.result = Returns(v)]
      [] c.op \in {"wait_for_element_to_not_be_visible", "tap"} ->
            [c EXCEPT !.pc = "returned", !.result = Returns(PyNone)]
      [] c.op \in {"browser_tap", "op_click_element"} -> [c EXCEPT !.pc = "click"]

\* the call after its wait returned the value v
after_wait(c, v) ==
    CASE c.op \in {"wait_for", "wait_for_text_in_elements"} ->
            [c EXCEPT !.pc = "returned", !.result = Returns(v)]
      [] c.op \in {"get_element", "get_elements"} -> [c EXCEPT !.pc = "fetch"]
      [] c.op \in {"wait_for_element_to_not_be_visible", "tap"} ->
            [c EXCEPT !.pc = "returned", !.result = Returns(PyNone)]
      [] c.op \in {"browser_tap", "op_click_element"} -> [c EXCEPT !.pc = "click"]

\* a wait begins: WebDriverWait(driver, timeout, ...).until(...)
begin_wait(op, args, timeout) ==
    [op |-> op, pc |-> "until", now |-> 0, end_time |-> timeout,
     polls |-> 0, log |-> <<>>, fetched |-> <<>>, clicks |-> <<>>, scripts |-> <<>>,
     result |-> Again] @@ args

\* wait_for(method, expected_result, timeout) is called
WaitFor ==
    /\ sel.pc = "idle"
    /\ \E expected_result \in MethodValues, timeout \in 0..MaxTimeout :
          sel' = begin_wait("wait_for", [expected_result |-> expected_result,
                                         timeout |-> timeout], timeout)
    /\ UNCHANGED api_vars

\* get_element(locator, timeout) or get_elements(locator) is called
GetElement ==
    /\ sel.pc = "idle"
    /\ \E op \in {"get_element", "get_elements"},
          locator \in Locators, timeout \in 0..MaxTimeout :
          sel' = begin_wait(op, [locator |-> locator, timeout |-> timeout], timeout)
    /\ UNCHANGED api_vars

\* wait_for_element_to_not_be_visible(locator, timeout) is called
WaitForElementToNotBeVisible ==
    /\ sel.pc = "idle"
    /\ \E locator \in Locators, timeout \in 0..MaxTimeout :
          sel' = begin_wait("wait_for_element_to_not_be_visible",
                            [locator |-> locator, timeout |-> timeout], timeout)
    /\ UNCHANGED api_vars

\* wait_for_text_in_elements(locator, text) is called
WaitForTextInElements ==
    /\ sel.pc = "idle"
    /\ \E locator \in Locators, text \in SearchTexts, timeout \in 0..MaxTimeout :
          sel' = begin_wait("wait_for_text_in_elements",
                            [locator |-> locator, text |-> text, timeout |-> timeout],
                            timeout)
    /\ UNCHANGED api_vars

\* tap(locator) is called
Tap ==
    /\ sel.pc = "idle"
    /\ \E locator \in Locators, timeout \in 0..MaxTimeout :
          sel' = begin_wait("tap", [locator |-> locator, timeout |-> timeout], timeout)
    /\ UNCHANGED api_vars

\* browser_tap(locator, timeout) is called
BrowserTap ==
    /\ sel.pc = "idle"
    /\ \E locator \in Locators, timeout \in 0..MaxTimeout, platform \in Platforms :
          sel' = begin_wait("browser_tap", [locator |-> locator, timeout |-> timeout,
                                            platform |-> platform], timeout)
    /\ UNCHANGED api_vars

\* op_click_element(locator_key) is called
OpClickElement ==
    /\ sel.pc = "idle"
    /\ \E locator \in Locators, timeout \in 0..MaxTimeout :
          sel' = begin_wait("op_click_element",
                            [locator |-> locator, timeout |-> timeout], timeout)
    /\ UNCHANGED api_vars

\* one pass of the loop of until
Poll ==
    /\ sel.pc = "until"
    /\ \E o \in outcomes_of(sel), dt \in 1..MaxStep :
          LET cond   == condition_of(sel, o)
              r      == until_pass(cond, sel.now + dt, sel.end_time,
                                   ignored_of(sel), message_of(sel))
              polled == [sel EXCEPT !.polls = @ + 1, !.log = Append(@, o),
                                    !.now = IF settles(cond, ignored_of(sel))
                                            THEN @ ELSE @ + dt]
          IN  sel' = CASE r.kind = "return" -> after_wait(polled, r.value)
                       [] r.kind = "raise" -> [polled EXCEPT !.pc = "raised", !.result = r]
                       [] OTHER -> polled
    /\ UNCHANGED api_vars

\* get_element, get_elements: the lookup that follows the wait, whose result
\* is what the call returns
Fetch ==
    /\ sel.pc = "fetch"
    /\ \E o \in outcomes_of(sel) :
          sel' = [sel EXCEPT !.pc = IF o.kind = "return" THEN "returned" ELSE "raised",
                             !.fetched = Append(@, o),
                             !.result = o]
    /\ UNCHANGED api_vars

\* (variant) a call that returns whatever the click ended with
clicked_swallows(c, k) ==
    [c EXCEPT !.clicks = Append(@, k), !.pc = "returned", !.result = Returns(PyNone)]

\* a call that ends by what a click ended with
clicked(c, k) ==
    [c EXCEPT !.clicks = Append(@, k),
              !.pc = IF k.kind = "return" THEN "returned" ELSE "raised",
              !.result = k]

\* a call that ends by what the script that clicks ended with
scripted(c, k) ==
    [c EXCEPT !.scripts = Append(@, k),
              !.pc = IF k.kind = "return" THEN "returned" ELSE "raised",
              !.result = k]

\* a call that ends because the get_element inside it raised
unfetched(c, r) == [c EXCEPT !.fetched = Append(@, r), !.pc = "raised", !.result = r]

\* (variant) a handler that fetches again after any error of the click
refetched_after_any_error(k) == k.kind = "raise"

\* op_click_element, except StaleElementReferenceException: the outcomes of
\* the first click after which the element is fetched again
refetched_after(k) == k = Raises(StaleElementReferenceException)

\* browser_tap, op_click_element: the element is clickable; get_element
\* fetches it and it is clicked
Click ==
    /\ sel.pc = "click"
    /\ \/ /\ sel.op = "browser_tap"
          /\ sel.platform \notin {"ios_web", "android_web"}
          /\ sel' = [sel EXCEPT !.pc = "raised", !.result = Raises(browser_tap_unsupported)]
       \/ /\ sel.op = "browser_tap" => sel.platform \in {"ios_web", "android_web"}
          /\ \E r \in get_element_results(sel.locator), k \in click_outcomes :
                LET got == [sel EXCEPT !.fetched = Append(@, r)] IN
                sel' = IF r.kind = "raise" THEN unfetched(sel, r)
                       ELSE IF sel.op = "browser_tap" /\ sel.platform = "ios_web"
                       THEN scripted(got, k)
                       ELSE IF sel.op = "op_click_element" /\ refetched_after(k)
                       THEN [got EXCEPT !.clicks = Append(@, k), !.pc = "click_again"]
                       ELSE clicked(got, k)
    /\ UNCHANGED api_vars

\* op_click_element, except StaleElementReferenceException: the element is
\* fetched again and clicked once more
ClickAgain ==
    /\ sel.pc = "click_again"
    /\ \E r \in get_element_results(sel.locator), k \in click_outcomes :
          sel' = IF r.kind = "raise" THEN unfetched(sel, r)
                 ELSE clicked([sel EXCEPT !.fetched = Append(@, r)], k)
    /\ UNCHANGED api_vars

SeleniumNext ==
    \/ WaitFor
    \/ GetElement
    \/ WaitForElementToNotBeVisible
    \/ WaitForTextInElements
    \/ Tap
    \/ BrowserTap
    \/ OpClickElement
    \/ SwipeUntilVisible
    \/ TryFetch
    \/ Poll
    \/ Lookup
    \/ Fetch
    \/ Click
    \/ ClickAgain

SeleniumSpec == Init /\ [][SeleniumNext]_vars

\* the thread that made the call keeps running: a pass of a wait loop that can
\* be made is made
SeleniumFairSpec == SeleniumSpec /\ WF_vars(Poll)

\* ------------------------------------------------------------ claims
\* how wait_for takes one evaluation of method, the exceptions of the types
\* swallowed counting as a value that does not match
WaitForReading(o, expected_result, swallowed) ==
    IF o.kind = "raise"
    THEN IF o.exc.type \in swallowed THEN "unsatisfied" ELSE "error"
    ELSE IF o.value = expected_result THEN "satisfied" ELSE "unsatisfied"

\* wait_for depends on what method did only through these readings: every
\* evaluation but the last was unsatisfied, and the last one returns True if
\* satisfied, propagates its exception at once if an error, and leaves the
\* wait polling or timed out if unsatisfied
WaitForFollowsReadings(swallowed) ==
    sel.pc # "idle" /\ sel.op = "wait_for" =>
        LET n == Len(sel.log)
            reading(i) == WaitForReading(sel.log[i], sel.expected_result, swallowed)
        IN  /\ sel.polls = n
            /\ \A i \in 1..(n - 1) : reading(i) = "unsatisfied"
            /\ n = 0 => sel.pc = "until"
            /\ n > 0 =>
                  /\ reading(n) = "satisfied" =>
                        sel.pc = "returned" /\ sel.result = Returns(PyBool(TRUE))
                  /\ reading(n) = "error" =>
                        sel.pc = "raised" /\ sel.result = sel.log[n]
                  /\ reading(n) = "unsatisfied" =>
                        \/ sel.pc = "until"
                        \/ /\ sel.pc = "raised"
                           /\ sel.result = Raises(TimeoutException(wait_for_message))

\* C12 (as stated): in wait_for a stale-reference error of method() counts as
\* a value that does not match, so that stale-then-expected ends as
\* other-then-expected does, and an error of any other kind propagates at
\* once, with no further poll.
C12_OnlyStaleIsSwallowed ==
    WaitForFollowsReadings({"StaleElementReferenceException"})

\* C12 (amended): in wait_for a stale-reference error and a not-found error of
\* method() both count as a value that does not match, and an error of any
\* other kind propagates at once, with no further poll.
C12_StaleAndNotFoundAreSwallowed ==
    WaitForFollowsReadings({"StaleElementReferenceException", "NoSuchElementException"})

\* method raised a stale-reference error, then gave the expected value, and
\* wait_for returned
C12_Witness ==
    /\ sel.pc = "returned"
    /\ sel.op = "wait_for"
    /\ sel.log = <<Raises(StaleElementReferenceException), Returns(sel.expected_result)>>

\* a call that has ended, by a return or by an exception
Ended == sel.pc \in {"returned", "raised"}

\* the evaluations of method that gave the expected value
WaitForMatches == {i \in 1..Len(sel.log) : sel.log[i] = Returns(sel.expected_result)}

\* the evaluations of method that raised an exception wait_for lets through
WaitForErrors ==
    {i \in 1..Len(sel.log) :
        /\ sel.log[i].kind = "raise"
        /\ sel.log[i].exc.type \notin IGNORED_EXCEPTIONS \cup wait_for_ignored}

\* wait_for and the polls it made: a poll that gives the expected value is the
\* last one and wait_for returns a truthy value there; wait_for returns only
\* so; when no poll gives it (and none raises an error that propagates)
\* wait_for ends only in a timeout error, and only once the timeout is over
WaitForOutcome ==
    sel.op = "wait_for" =>
        /\ sel.polls = Len(sel.log)
        /\ \A i \in WaitForMatches :
              /\ i = Len(sel.log)
              /\ sel.pc = "returned"
              /\ sel.result.kind = "return"
              /\ Truthy(sel.result.value)
        /\ sel.pc = "returned" => WaitForMatches # {}
        /\ Ended /\ WaitForMatches = {} /\ WaitForErrors = {} =>
              sel.result = Raises(TimeoutException(wait_for_message))
        /\ sel.pc = "raised" /\ sel.result.exc.type = "TimeoutException" =>
              sel.now >= sel.timeout

\* C14: wait_for always terminates; a poll at which method() equals expected
\* makes it return a truthy value at that poll, with no further evaluation of
\* method; if method() never equals expected it returns no value and fails
\* with a timeout error, never before the timeout has elapsed.
C14_WaitForTerminates ==
    /\ []WaitForOutcome
    /\ (sel.op = "wait_for") ~> (sel.op = "wait_for" /\ Ended)

\* wait_for timed out after polling as often as the timeout lets it
C14_Witness ==
    /\ sel.op = "wait_for"
    /\ sel.pc = "raised"
    /\ sel.result.exc.type = "TimeoutException"
    /\ sel.timeout = MaxTimeout
    /\ sel.polls = MaxTimeout + 1

\* C13: a timeout failure raised by a wait of get_element, get_elements,
\* wait_for_text_in_elements, wait_for_element_to_not_be_visible, wait_for,
\* tap, browser_tap or op_click_element always carries a message that is not
\* empty.
C13_TimeoutsCarryAMessage ==
    /\ sel.pc = "raised"
    /\ sel.op \in {"get_element", "get_elements", "wait_for_text_in_elements",
                   "wait_for_element_to_not_be_visible", "wait_for", "tap",
                   "browser_tap", "op_click_element"}
    /\ sel.result.exc.type = "TimeoutException"
    => sel.result.exc.message # <<>>

\* C15: op_click_element, the element being clickable: when the first click
\* raises a stale-reference error and the click on the element fetched again
\* succeeds, the call returns normally; when that second click raises too, its
\* error reaches the caller as it is. There is no third click.
C15_ClickRetriedOnce ==
    sel.op = "op_click_element" =>
        /\ Len(sel.clicks) <= 2
        /\ Len(sel.clicks) = 2 =>
              /\ sel.clicks[1] = Raises(StaleElementReferenceException)
              /\ sel.clicks[2].kind = "return" =>
                    sel.pc = "returned" /\ sel.result.kind = "return"
              /\ sel.clicks[2].kind = "raise" =>
                    sel.pc = "raised" /\ sel.result = sel.clicks[2]

\* both clicks raised a stale-reference error and the call has ended
C15_Witness ==
    /\ sel.op = "op_click_element"
    /\ sel.clicks = <<Raises(StaleElementReferenceException),
                      Raises(StaleElementReferenceException)>>
    /\ sel.pc = "raised"

\* the lookups of a swipe_until_visible call that found nothing
NotFoundLookups ==
    {i \in 1..Len(sel.log) : sel.log[i] = Raises(NoSuchElementException)}

\* C16: swipe_until_visible(locator, attempts = n), n >= 1: a target never
\* found takes exactly n gestures and the call fails with a not-found error; a
\* target first found on the k-th lookup, k <= n, takes exactly k - 1 gestures
\* and the call returns the element of that lookup.
C16_GesturesCounted ==
    /\ sel.op = "swipe_until_visible"
    /\ sel.given >= 1
    /\ Ended
    /\ \A i \in 1..Len(sel.log) : sel.log[i] # Raises(WebDriverException)
    => LET k == Len(sel.log) IN
       IF NotFoundLookups = 1..k
       THEN /\ sel.gestures = sel.given
            /\ sel.pc = "raised"
            /\ sel.result.exc.type = "NoSuchElementException"
       ELSE /\ k <= sel.given
            /\ NotFoundLookups = 1..(k - 1)
            /\ sel.gestures = k - 1
            /\ sel.pc = "returned"
            /\ sel.result = sel.log[k]

\* a message names a text when the text is one of the parts it is made of
Names(message, text) == \E i \in 1..Len(message) : message[i] = text

\* a swipe_until_visible call that used up its attempts
Exhausted ==
    /\ sel.op = "swipe_until_visible"
    /\ sel.pc = "raised"
    /\ sel.attempts = 0

\* C17 (as stated): the not-found error of a swipe_until_visible call that
\* used up its attempts names the locator and the number of attempts made.
C17_ErrorNamesLocatorAndAttempts ==
    Exhausted =>
        /\ sel.result.exc.type = "NoSuchElementException"
        /\ Names(sel.result.exc.message, LocatorText(sel.locator))
        /\ Names(sel.result.exc.message, Decimal(sel.given))

\* C17 (amended): the not-found error of a swipe_until_visible call that used
\* up its attempts names the locator; it does not name the number of attempts.
C17_ErrorNamesLocatorOnly ==
    Exhausted =>
        /\ sel.result.exc.type = "NoSuchElementException"
        /\ Names(sel.result.exc.message, LocatorText(sel.locator))
        /\ ~Names(sel.result.exc.message, Decimal(sel.given))

\* three lookups found nothing, three gestures were made, the call failed
C17_Witness ==
    /\ Exhausted
    /\ sel.given = MaxAttempts
    /\ sel.gestures = MaxAttempts
    /\ Len(sel.log) = MaxAttempts

\* an attempt of tap whose click went through
Clicked(a) == a.lookup.kind = "return" /\ a.click.kind = "return"

\* tap and its attempts: an attempt whose click went through is the last one
\* and tap returns there, and only there; an attempt that hit a
\* stale-reference or a not-found error does not end tap by that error; tap
\* fails only by a timeout, its own one only once the timeout is over
TapOutcome ==
    sel.op = "tap" =>
        LET n == Len(sel.log) IN
        /\ sel.polls = n
        /\ \A i \in 1..n : Clicked(sel.log[i]) => i = n /\ sel.pc = "returned"
        /\ sel.pc = "returned" => n > 0 /\ Clicked(sel.log[n])
        /\ \A i \in 1..n :
              \/ sel.log[i].lookup = Raises(NoSuchElementException)
              \/ sel.log[i].click = Raises(StaleElementReferenceException)
              => \/ i < n
                 \/ sel.pc = "until"
                 \/ sel.pc = "raised" /\ sel.result = Raises(TimeoutException(tap_message))
        /\ sel.pc = "raised" =>
              /\ sel.result.exc.type = "TimeoutException"
              /\ sel.result = Raises(TimeoutException(tap_message)) => sel.now > sel.timeout

C19_TryFetchOnce ==
    sel.op = "try_fetch" =>
        /\ Len(sel.log) = 1
        /\ Ended
        /\ sel.now = 0 /\ sel.polls = 0
        /\ LET o == sel.log[1] IN
           /\ o.kind = "return" => sel.pc = "returned" /\ sel.result = o
           /\ o.kind = "raise" /\ o.exc.type = "NoSuchElementException" =>
                 sel.pc = "returned" /\ sel.result = Returns(PyNone)
           /\ o.kind = "raise" /\ o.exc.type # "NoSuchElementException" =>
                 sel.pc = "raised" /\ sel.result = o

\* function() raised a stale-reference error and try_fetch let it through
C19_Witness ==
    /\ sel.op = "try_fetch"
    /\ sel.log = <<Raises(StaleElementReferenceException)>>
    /\ sel.pc = "raised"

\* a poll of wait_for_text_in_elements hit a stale element
HitStale(page) == \E i \in 1..Len(page) : page[i].text.kind = "raise"

\* the elements of a page, by position, whose text contains text
Matches(page, text) ==
    {i \in 1..Len(page) : page[i].text.kind = "return"
                          /\ contains(page[i].text.value, text)}

\* a poll is satisfied when it hit no stale element and some element matches
Satisfied(page, text) == ~HitStale(page) /\ Matches(page, text) # {}

C21_FreshLookupAfterWait ==
    sel.op \in {"get_element", "get_elements"} =>
        LET n == Len(sel.log) IN
        /\ Len(sel.fetched) <= 1
        /\ sel.pc = "fetch" \/ sel.fetched # <<>> =>
              /\ n > 0
              /\ sel.polls = n
              /\ sel.log[n].kind = "return" /\ Truthy(sel.log[n].value)
              /\ \A i \in 1..(n - 1) :
                    ~(sel.log[i].kind = "return" /\ Truthy(sel.log[i].value))
        /\ sel.pc = "returned" => sel.fetched # <<>> /\ sel.result = sel.fetched[1]
        /\ sel.fetched # <<>> => Ended /\ sel.result = sel.fetched[1]

\* get_element returned an element that is not the one its wait had found
C21_Witness ==
    /\ sel.op = "get_element"
    /\ sel.pc = "returned"
    /\ sel.log[Len(sel.log)] = Returns(Element("e1"))
    /\ sel.result = Returns(Element("e2"))

\* the first element that matches is there and displayed
FirstVisible(p) ==
    /\ p.found.kind = "return"
    /\ p.displayed = Returns(PyBool(TRUE))

\* some element that matches is displayed
SomeVisible(p) == FirstVisible(p) \/ \E i \in 1..Len(p.rest) : p.rest[i]

\* wait_for_element_to_not_be_visible, given which polls count as visible: it
\* returns only at a poll that is not visible, a visible poll is followed by
\* another one, and visible polls for the whole timeout end in the timeout error
NotVisibleFollows(Visible(_)) ==
    sel.op = "wait_for_element_to_not_be_visible" =>
        LET n == Len(sel.log) IN
        /\ sel.polls = n
        /\ sel.pc = "returned" => n > 0 /\ ~Visible(sel.log[n])
        /\ \A i \in 1..n :
              Visible(sel.log[i]) =>
                 \/ i < n
                 \/ sel.pc = "until"
                 \/ /\ sel.pc = "raised"
                    /\ sel.now > sel.timeout
                    /\ sel.result = Raises(TimeoutException(not_visible_message(sel.locator)))

\* C22 (as stated): wait_for_element_to_not_be_visible returns normally only at
\* a poll where no element matches the locator or every element that matches
\* is not visible; while some element that matches is visible it keeps polling
\* and, if that lasts for the whole timeout, fails with a timeout error.
C22_ReturnsWhenNoMatchIsVisible == NotVisibleFollows(SomeVisible)

\* C22 (amended): wait_for_element_to_not_be_visible returns normally only at a
\* poll where no element matches the locator or the first element that matches
\* is not visible or has gone stale; while the first element that matches is
\* visible it keeps polling and, if that lasts for the whole timeout, fails
\* with a timeout error. Further elements that match are not looked at.
C22_ReturnsWhenFirstMatchIsNotVisible == NotVisibleFollows(FirstVisible)

\* the call returned at a poll whose first match was hidden while a second
\* element that matches was displayed
C22_Witness ==
    /\ sel.op = "wait_for_element_to_not_be_visible"
    /\ sel.pc = "returned"
    /\ Len(sel.log) = 2
    /\ FirstVisible(sel.log[1])
    /\ sel.log[2].displayed = Returns(PyBool(FALSE))
    /\ sel.log[2].rest = <<TRUE>>

\* the tests of the suite the runner has dealt with: the test method ended,
\* or setUp failed at driver creation
Handled == DOMAIN run.outcome \cup run.setup_failed

\* the classes of the suite whose setUpClass failed
ClassesNotSetUp ==
    {c \in {run.suite[i].cls : i \in 1..Len(run.suite)} :
        \E i \in 1..Len(run.results.errors) :
            run.results.errors[i].test = ErrorHolderOf(c)}

\* ---- C23: a driver-creation failure in the setUp of one test is fatal for
\* that test only. In a run in which some setUp failed and the runner itself
\* did not, the run is not aborted, and once the runner has returned every
\* other test of the suite (of a class that was set up) has run.
C23_SetUpFailureIsFatalForItsTestOnly ==
    (run.setup_failed # {} /\ ~run.runner_failed) =>
        /\ run.pc # "aborted"
        /\ run.pc # "running" =>
              \A i \in 1..Len(run.suite) :
                  run.suite[i].cls \notin ClassesNotSetUp => run.suite[i] \in Handled

\* ---- C24: browser_tap on a platform other than ios_web and android_web
\* always ends with the RuntimeError of the unsupported operation, without a
\* click and without a script; on ios_web a call that returns has clicked
\* through one script and no element click, on android_web through one
\* element click and no script.
C24_UnsupportedPlatformAlwaysRuntimeError ==
    sel.op = "browser_tap" =>
        /\ sel.platform \notin {"ios_web", "android_web"} =>
              /\ sel.clicks = <<>>
              /\ sel.scripts = <<>>
              /\ sel.pc \in {"returned", "raised"} =>
                    sel.result = Raises(browser_tap_unsupported)
        /\ (sel.platform = "ios_web" /\ sel.pc = "returned") =>
              Len(sel.scripts) = 1 /\ sel.clicks = <<>>
        /\ (sel.platform = "android_web" /\ sel.pc = "returned") =>
              Len(sel.clicks) = 1 /\ sel.scripts = <<>>

\* what holds of the reconciliation count and of the records in every state
\* of a run
C25_Order ==
    /\ run.reconciliations <= 1
    /\ run.pc \in {"running", "finished"} =>
          run.reconciliations = 0 /\ WithStatus(test_results, "failed") = {}
    /\ run.pc \in {"reconciled", "reported"} => run.reconciliations = 1
    /\ run.posted # None => run.reconciliations = 1 /\ run.pc = "reported"

\* what holds of every step of a run
C25_Steps ==
    /\ run'.reconciliations # run.reconciliations =>
          /\ run.pc = "finished" /\ run.queue = <<>> /\ run.current = None
          /\ \A t \in DOMAIN run.outcome : Rec(test_results, t).end_time # None
    /\ WithStatus(test_results', "failed") # WithStatus(test_results, "failed") =>
          run'.reconciliations = run.reconciliations + 1
    /\ lastOp'.op = "report" =>
          /\ run.reconciliations = 1
          /\ test_results' = test_results
          /\ run'.posted # None =>
                run'.posted = slack_report(get_testrun_totals(test_results).value[1],
                                           run.REPORT_ON_FAIL)

\* ---- C25: in a run get_results is called at most once, and exactly once
\* before anything is reported; it is called only after the runner has
\* returned, when no test is waiting or in progress and every test that
\* started has been through tearDown; the totals handed to the sink are
\* those of the store after reconciliation; no record is failed while tests
\* are executing, and a record becomes failed only in the reconciliation.
C25_ReconciledOnceAfterTheSuite == []C25_Order /\ [][C25_Steps]_vars

C25_Witness ==
    /\ run.pc = "reported"
    /\ run.posted # None
    /\ run.reconciliations = 1
    /\ WithStatus(test_results, "failed") # {}
    /\ WithStatus(test_results, "passed") # {}

\* the text of a percentage of n tenths with one decimal place
OneDecimal(n) == Decimal(n \div 10) \o "." \o Digit(n % 10) \o "%"

\* n tenths of a percent is count / total * 100 to the nearest tenth
NearestTenth(n, count, total) ==
    LET off == n * total - count * 1000
    IN  n >= 0 /\ 2 * off <= total /\ 2 * off >= 0 - total

\* the numbers of tenths that are count / total * 100 to the nearest tenth
\* and that text shows with one decimal place
TenthsShown(text, count, total) ==
    LET below == (count * 1000) \div total
    IN  {n \in below..(below + 1) : NearestTenth(n, count, total) /\ OneDecimal(n) = text}

\* the totals the report of the run has just computed
ReportedTotals == lastOp.op = "report" /\ raised = "none" /\ ret # None

\* ---- C26: the totals computed over a store with total_testcases > 0 carry
\* as percentages passed / total * 100 and failed / total * 100, each as a
\* text with one decimal place that is the nearest tenth, and the two values
\* add up to 100.0 within one tenth.
C26_PercentagesToOneDecimal ==
    ReportedTotals =>
        LET totals == ret[1]
            total  == totals.total_testcases
        IN  /\ total > 0
            /\ \E p \in TenthsShown(totals.passed_percentage, totals.passed_testcases, total),
                  f \in TenthsShown(totals.failed_percentage, totals.failed_testcases, total) :
                   p + f \in 999..1001

C26_Witness ==
    /\ ReportedTotals
    /\ ret[1].total_testcases = 3
    /\ ret[1].passed_percentage = "66.7%"
    /\ ret[1].failed_percentage = "33.3%"

\* a record before teardown has neither end_time nor duration; after it,
\* end_time is not earlier than start_time and duration is their distance
\* in whole seconds
C27_Timed(rec) ==
    IF rec.end_time = None
    THEN rec.duration = None
    ELSE /\ rec.end_time[1] >= rec.start_time
         /\ rec.duration # None
         /\ rec.duration[1] >= 0
         /\ rec.duration[1] * TicksPerSecond <= rec.end_time[1] - rec.start_time
         /\ (rec.duration[1] + 1) * TicksPerSecond > rec.end_time[1] - rec.start_time

\* end_time is written by add_test_case_result, for its own test, as the
\* time of the call, and cleared by a registration of the test
C27_Steps ==
    \A t \in Keys(test_results') :
        LET after == Rec(test_results', t) IN
        /\ (lastOp'.op = "add_test_case_result" /\ lastOp'.test = t /\ raised' = "none")
              => after.end_time = Some(clock)
        /\ (lastOp'.op = "register_test_case" /\ lastOp'.test = t)
              => after.end_time = None /\ after.start_time = clock
        /\ (Registered(test_results, t) /\ after.end_time # Rec(test_results, t).end_time)
              => lastOp'.op \in {"add_test_case_result", "register_test_case"} /\ lastOp'.test = t

\* ---- C27: after add_test_case_result for a registered test the record's
\* end_time is the time of the call, not earlier than start_time, and
\* duration is end_time - start_time in whole seconds, not negative; a
\* record that has not been through teardown has end_time and duration null.
C27_DurationIsEndMinusStart ==
    /\ [](\A t \in Keys(test_results) : C27_Timed(Rec(test_results, t)))
    /\ [][C27_Steps]_vars

C27_Witness ==
    /\ lastOp.op = "add_test_case_result"
    /\ raised = "none"
    /\ Rec(test_results, lastOp.test).start_time = 0
    /\ Rec(test_results, lastOp.test).end_time = Some(TicksPerSecond)
    /\ Rec(test_results, lastOp.test).duration = Some(1)

\* ---- C28: get_testrun_totals only reads the store. The store after the
\* call is the store before it, whether the call returns or raises, and a
\* second call on the store the first one left gives what the first gave.
C28_TotalsAreReadOnly ==
    [][lastOp'.op = "get_testrun_totals" =>
          /\ test_results' = test_results
          /\ external_case_ids' = external_case_ids
          /\ get_testrun_totals(test_results').raised = raised'
          /\ get_testrun_totals(test_results').value = ret']_vars

C28_Witness ==
    /\ lastOp.op = "get_testrun_totals"
    /\ raised = "none"
    /\ ret[1].total_testcases = 2
    /\ WithStatus(test_results, "failed") # {}

\* what holds of the clicks and lookups of a call of op_click_element
C29_Attempts ==
    sel.op = "op_click_element" =>
        /\ Len(sel.clicks) <= 2
        /\ Len(sel.fetched) <= 2
        /\ Len(sel.clicks) <= Len(sel.fetched)
        /\ Len(sel.fetched) = 2 => sel.clicks[1] = Raises(StaleElementReferenceException)
        /\ (Len(sel.clicks) >= 1 /\ sel.clicks[1] # Raises(StaleElementReferenceException)) =>
              /\ Len(sel.clicks) = 1
              /\ Len(sel.fetched) = 1
              /\ sel.result = sel.clicks[1]
              /\ sel.pc = IF sel.clicks[1].kind = "raise" THEN "raised" ELSE "returned"
        /\ sel.pc = "click_again" => sel.clicks = <<Raises(StaleElementReferenceException)>>

\* once the clickability wait of the call is over it is not entered again,
\* and a call that has ended makes no further lookup or click
C29_Steps ==
    (sel.op = "op_click_element" /\ sel'.op = "op_click_element") =>
        /\ sel.pc # "until" => sel'.pc # "until" /\ sel'.polls = sel.polls
        /\ sel.pc \in {"returned", "raised"} =>
              sel'.clicks = sel.clicks /\ sel'.fetched = sel.fetched

\* ---- C29: op_click_element makes at most two clicks and at most two
\* lookups. The element is fetched again only after the first click raised a
\* stale-reference error; the second click is the last, whatever it ends
\* with; the clickability wait is not made again before it; any other error
\* of the first click reaches the caller with no second lookup or click.
C29_AtMostTwoClicksOneRefetch == []C29_Attempts /\ [][C29_Steps]_vars

\* the first click was intercepted and the call has ended with that error
C29_Witness ==
    /\ sel.op = "op_click_element"
    /\ sel.pc = "raised"
    /\ sel.clicks = <<Raises(ElementClickInterceptedException)>>
    /\ Len(sel.fetched) = 1
    /\ sel.polls >= 2

\* ---- C30: during tap only stale-reference and not-found errors lead to
\* another attempt. An attempt whose click raised an error of any other
\* kind is the last one: tap ends there and that error is what the caller
\* gets.
C30_OtherClickErrorsAbortTap ==
    sel.op = "tap" =>
        \A i \in 1..Len(sel.log) :
            LET a == sel.log[i] IN
            (/\ a.lookup.kind = "return"
             /\ a.click.kind = "raise"
             /\ a.click.exc.type \notin {"StaleElementReferenceException",
                                         "NoSuchElementException"})
            => /\ i = Len(sel.log)
               /\ sel.pc = "raised"
               /\ sel.result = a.click

\* a swipe_until_visible call that has ended and whose lookups all found
\* nothing
NeverFound ==
    /\ sel.op = "swipe_until_visible"
    /\ Ended
    /\ NotFoundLookups = 1..Len(sel.log)

\* ---- C31: the loop of swipe_until_visible behaves the same on ios and on
\* every other platform: no gesture raises, and a call with attempts = n,
\* n >= 1, whose target is never found makes exactly n lookups and n gestures
\* and ends with the not-found error of the call.
C31_SameOnBothPlatformFamilies ==
    sel.op = "swipe_until_visible" =>
        /\ sel.pc = "raised" => sel.result.exc.type # "KeyError"
        /\ (NeverFound /\ sel.given >= 1) =>
              /\ sel.gestures = sel.given
              /\ Len(sel.log) = sel.given
              /\ sel.result = Raises(Exc("NoSuchElementException",
                                         swipe_until_visible_message(sel.locator)))

\* the lookups of a swipe_until_visible call that ended by an error of the
\* driver other than not-found
DriverErrorLookups ==
    {i \in 1..Len(sel.log) : sel.log[i] = Raises(WebDriverException)}

\* ---- C32: in swipe_until_visible every gesture follows a lookup that found
\* nothing; a call that fails without a driver error has made as many
\* lookups as gestures, the number of attempts given, so that no lookup
\* follows the last gesture; with no attempts given it fails at once with no
\* lookup and no gesture; a lookup that raises another error ends the call
\* with that error and without a gesture.
C32_LookupsEqualGestures ==
    sel.op = "swipe_until_visible" =>
        /\ sel.gestures <= Cardinality(NotFoundLookups)
        /\ (sel.pc = "raised" /\ DriverErrorLookups = {}) =>
              /\ Len(sel.log) = sel.given
              /\ sel.gestures = sel.given
              /\ sel.result.exc.type = "NoSuchElementException"
        /\ sel.given = 0 => sel.pc = "raised" /\ sel.log = <<>> /\ sel.gestures = 0
        /\ \A i \in DriverErrorLookups :
              /\ i = Len(sel.log)
              /\ sel.pc = "raised"
              /\ sel.result = sel.log[i]
              /\ sel.gestures = i - 1

\* the entries of a runner result in the order get_results reads them
InReadingOrder(results) == results.failures \o results.errors

\* the places of test t among the entries
PlacesOf(entries, t) == {i \in 1..Len(entries) : entries[i].test = t}

\* the last of a set of places that is not empty
LastOf(places) == CHOOSE i \in places : \A j \in places : j <= i

\* ---- C33: get_results reads failures in order and then errors in order.
\* After a call that returned, a test that appears in several entries is
\* failed and its message is the text of the last of its entries in that
\* order, an entry of errors coming after every entry of failures.
C33_LastEntryWins ==
    (lastOp.op = "get_results" /\ raised = "none") =>
        LET entries == InReadingOrder(lastOp.results) IN
        \A t \in Keys(test_results) :
            Cardinality(PlacesOf(entries, t)) >= 2 =>
                /\ StatusOf(test_results, t) = "failed"
                /\ Rec(test_results, t).message = entries[LastOf(PlacesOf(entries, t))].trace

\* the (class, method) pairs that have a record in the store
Pairs(tr) == UNION {{<<c, m>> : m \in DOMAIN tr[c]} : c \in DOMAIN tr}

\* the stores before and after have the same classes and the same methods,
\* and the same record under every pair other than that of test t
OnlyRecordOf(t, before, after) ==
    /\ DOMAIN after = DOMAIN before
    /\ \A c \in DOMAIN before : DOMAIN after[c] = DOMAIN before[c]
    /\ \A p \in Pairs(before) : p # <<t.cls, t.method>> => after[p[1]][p[2]] = before[p[1]][p[2]]

\* ---- C34: add_test_case_result for a test, and the loop pass of
\* _get_failed_results over one entry for a test, change at most the record
\* of that test: no class and no method is added to or removed from the
\* store, every other record stays as it was, and for a test without a
\* record the call raises and the store is as before.
C34_OnlyTheRecordOfTheTest ==
    [][/\ lastOp'.op = "add_test_case_result" =>
             /\ OnlyRecordOf(lastOp'.test, test_results, test_results')
             /\ ~Registered(test_results, lastOp'.test) =>
                   raised' = "KeyError" /\ test_results' = test_results
       /\ lastOp'.op = "get_results" =>
             \A i \in 1..Len(steps') :
                 LET step == steps'[i]
                     t    == step.entry.test
                 IN  t.cls # "_ErrorHolder" =>
                       /\ OnlyRecordOf(t, step.before, step.after)
                       /\ ~Registered(step.before, t) =>
                             /\ step.after = step.before
                             /\ i = Len(steps')
                             /\ raised' = "KeyError"]_vars

\* a get_results that changed the record of one test, left the record of
\* another as it was, and raised at an entry for a test without a record
C34_Witness ==
    /\ lastOp.op = "get_results"
    /\ raised = "KeyError"
    /\ Len(steps) = 2
    /\ steps[1].after # steps[1].before
    /\ Cardinality(Keys(steps[1].before)) = 1
    /\ steps[2].after = steps[2].before

\* the attempts of the tap in progress whose click went through
SuccessfulClicks == {i \in 1..Len(sel.log) : Clicked(sel.log[i])}

\* ---- C35: a call of tap makes at most one click that goes through. The
\* attempt whose click went through is the last attempt of the call, which
\* returns there, so nothing is clicked after it.
C35_AtMostOneSuccessfulClick ==
    sel.op = "tap" =>
        /\ Cardinality(SuccessfulClicks) <= 1
        /\ \A i \in SuccessfulClicks :
              /\ i = Len(sel.log)
              /\ sel.polls = i
              /\ sel.pc = "returned"

\* the element was not there at the first attempt, and the click of the
\* second attempt went through
C35_Witness ==
    /\ sel.op = "tap"
    /\ sel.pc = "returned"
    /\ Len(sel.log) = 2
    /\ sel.log[1].lookup = Raises(NoSuchElementException)
    /\ SuccessfulClicks = {2}

\* every entry of the runner result that names a test names one that has a
\* record in the store
AllRegistered(tr, results) ==
    \A i \in 1..Len(InReadingOrder(results)) :
        LET t == InReadingOrder(results)[i].test
        IN  t.cls # "_ErrorHolder" => Registered(tr, t)

\* ---- C36: reconciliation is idempotent. After get_results over a runner
\* result whose tests all have a record, get_results over the same result
\* returns again and leaves the store as the first call left it.
C36_ReconciliationIsIdempotent ==
    (lastOp.op = "get_results" /\ AllRegistered(test_results, lastOp.results)) =>
        /\ raised = "none"
        /\ get_results(test_results, lastOp.results).raised = "none"
        /\ get_results(test_results, lastOp.results).store = test_results

\* a reconciliation over two entries of one test, with two different texts
C36_Witness ==
    /\ lastOp.op = "get_results"
    /\ raised = "none"
    /\ Len(steps) = 2
    /\ steps[1].entry.test = steps[2].entry.test
    /\ steps[1].entry.trace # steps[2].entry.trace
    /\ StatusOf(test_results, steps[2].entry.test) = "failed"

\* ---- C37: tearDown hands the test to add_test_case_result before it
\* quits any driver: a driver whose quit() has been called belongs to a test
\* whose record has its end_time. When tearDown has returned normally, the
\* quit() of every driver of the test has been called exactly once. quit()
\* is called on a driver only by the tearDown of the test it was created
\* for, setUp having emptied the collection.
C37_TearDownQuitsItsOwnDrivers ==
    \A d \in 1..Len(run.owner) :
        LET t == run.owner[d] IN
        /\ run.quits[d] > 0 =>
              Registered(test_results, t) /\ Rec(test_results, t).end_time # None
        /\ t \in run.torn_down => run.quits[d] = 1
        /\ run.quitters[d] \subseteq {t}

\* both tests held two drivers and both tearDowns have returned
C37_Witness ==
    /\ run.torn_down = {A_test1, A_test2}
    /\ Len(run.owner) = 2 * MaxDrivers
    /\ \A d \in 1..Len(run.owner) : run.quits[d] = 1

\* ---- C38: TestRunnerUtils.report posts the summary exactly when
\* SLACK_REPORTING is on and either no record is failed or REPORT_ON_FAIL is
\* on; with SLACK_REPORTING off the totals are not computed at all.
C38_PostedIffEnabledAndAllowed ==
    lastOp.op = "report" =>
        /\ run.posted # None <=>
              /\ run.SLACK_REPORTING
              /\ WithStatus(test_results, "failed") = {} \/ run.REPORT_ON_FAIL
        /\ ~run.SLACK_REPORTING => ret = None /\ raised = "none"

\* ---- C39: for a whole number t >= 0 of seconds get_readable_run_time
\* returns the hours part "<h>h " exactly when h > 0, then the minutes part
\* "<m>m " exactly when m > 0, then always "<s>s", where h = t div 3600,
\* m = (t mod 3600) div 60 and s = t mod 60, so that m < 60, s < 60 and
\* 3600 h + 60 m + s = t; 0 gives "0s".
C39_HoursMinutesSeconds ==
    lastOp.op = "get_readable_run_time" =>
        LET t == lastOp.test_run_time
            h == t \div 3600
            m == (t % 3600) \div 60
            s == t % 60
        IN  /\ raised = "none"
            /\ m < 60 /\ s < 60 /\ 3600 * h + 60 * m + s = t
            /\ ret = Some((IF h > 0 THEN Decimal(h) \o "h " ELSE "")
                           \o (IF m > 0 THEN Decimal(m) \o "m " ELSE "")
                           \o Decimal(s) \o "s")
            /\ t = 0 => ret = Some("0s")

\* an hour, a minute and a second
C39_Witness ==
    /\ lastOp.op = "get_readable_run_time"
    /\ lastOp.test_run_time = 3661
    /\ ret = Some("1h 1m 1s")

====
